---- MODULE Spec2Model ----
(***************************************************************************)
(* Versioning score of openteams-score (src/versioning/versioning.py).     *)
(*                                                                         *)
(* A Python str is a sequence of one-character strings: "1.0" is           *)
(* <<"1", ".", "0">>.  Timestamps are whole days 0..MaxDay, NaT is the     *)
(* missing timestamp.  A float is a record [k, v]: k = "num" with v in     *)
(* hundredths, k = "nan", or k = "inf" with the sign in v.                 *)
(***************************************************************************)
EXTENDS Integers, Sequences, FiniteSets, TLC

VARIABLES
    num,                    \* SpecTok: argument of _split_version_num
    num2,                   \* SpecTok: a second version string
    num_parts,              \* SpecTok: result of _split_version_num(num)
    version_type,           \* SpecTok: result of _find_version_type
    version_csv,            \* release rows read from version_data_csv, per project id
    count_csv,              \* version_count_csv: project id -> its repository_id
    version,                \* self.version after the merge, per repository id
    versioning,             \* self.versioning, the metrics table, per repository id
    date_series,            \* self.date_series
    parallel_date_series,   \* self.parallel_date_series
    n,                      \* the local n of Versioning.score, per repository id
    deltatimes,             \* what _build_deltatime_series returned, per repository id
    calls,                  \* the methods of Versioning called so far, in order
    pc                      \* position in OpenTeamsScore.versioning_score

vars == <<num, num2, num_parts, version_type, version_csv, count_csv, version,
          versioning, date_series, parallel_date_series, n, deltatimes, calls, pc>>

tokVars == <<num, num2, num_parts, version_type>>
pipeVars == <<version_csv, count_csv, version, versioning, date_series,
              parallel_date_series, n, deltatimes, calls, pc>>

----------------------------------------------------------------------------
(* Bounds *)

\* longest version string drawn for the tokenizer
MaxLen == 4

----------------------------------------------------------------------------
(* Python str operations *)

Dot == "."

\* code point order of the characters the model uses
Ord(c) ==
    CASE c = "." -> 46
      [] c = "0" -> 48
      [] c = "1" -> 49
      [] c = "2" -> 50
      [] c = "3" -> 51
      [] c = "c" -> 99
      [] c = "d" -> 100
      [] c = "e" -> 101
      [] c = "g" -> 103
      [] c = "h" -> 104
      [] c = "i" -> 105
      [] c = "l" -> 108
      [] c = "n" -> 110
      [] c = "r" -> 114
      [] c = "t" -> 116
      [] c = "v" -> 118
      [] c = "y" -> 121

\* s.split("."): always at least one part, "" splits into [""]
RECURSIVE PySplit(_)
PySplit(s) ==
    IF \A i \in 1..Len(s) : s[i] # Dot
    THEN <<s>>
    ELSE LET i == CHOOSE k \in 1..Len(s) :
                      s[k] = Dot /\ \A j \in 1..(k - 1) : s[j] # Dot
         IN  <<SubSeq(s, 1, i - 1)>> \o PySplit(SubSeq(s, i + 1, Len(s)))

\* ".".join(parts)
RECURSIVE PyJoin(_)
PyJoin(parts) ==
    IF parts = <<>> THEN <<>>
    ELSE IF Len(parts) = 1 THEN parts[1]
    ELSE parts[1] \o <<Dot>> \o PyJoin(Tail(parts))

\* a < b on str: lexicographic by code point, a proper prefix is smaller
RECURSIVE StrLess(_, _)
StrLess(a, b) ==
    IF b = <<>> THEN FALSE
    ELSE IF a = <<>> THEN TRUE
    ELSE IF a[1] # b[1] THEN Ord(a[1]) < Ord(b[1])
    ELSE StrLess(Tail(a), Tail(b))

\* [x] * k on a list: the empty list when k <= 0
PyRepeat(x, k) == [i \in 1..(IF k > 0 THEN k ELSE 0) |-> x]

\* the value of a string of digits
RECURSIVE NumVal(_)
NumVal(s) ==
    IF s = <<>> THEN 0
    ELSE 10 * NumVal(SubSeq(s, 1, Len(s) - 1)) + (Ord(s[Len(s)]) - Ord("0"))

\* a > b on the numbers the strings spell (the mutant of C7)
StrGreaterNumeric(a, b) == NumVal(a) > NumVal(b)

\* a > b on str
StrGreater(a, b) == StrLess(b, a)

\* pat occurs in s as a substring
Contains(s, pat) ==
    \E i \in 1..(Len(s) - Len(pat) + 1) : SubSeq(s, i, i + Len(pat) - 1) = pat

----------------------------------------------------------------------------
(* Release kinds, tokenizer and classifier *)

Release == {"MAJOR", "MINOR", "PATCH", "OTHER", "FIRST"}

\* Versioning._split_version_num, with the padding dropped (the mutant of C1)
split_version_num_nopad(number) ==
    LET parts == PySplit(number)
    IN  <<parts[1],
          IF Len(parts) >= 2 THEN parts[2] ELSE <<>>,
          PyJoin(SubSeq(parts, 3, Len(parts)))>>

\* Versioning._split_version_num
split_version_num(number) ==
    LET parts  == PySplit(number)
        padded == parts \o PyRepeat(<<"0">>, 3 - Len(parts))
    IN  <<padded[1], padded[2], PyJoin(SubSeq(padded, 3, Len(padded)))>>

\* Versioning._find_version_type with the minor test before the major test
\* (the mutant of C2)
find_version_type_swapped(prev_num_parts, curr_num_parts) ==
    IF prev_num_parts[2] # curr_num_parts[2] THEN "MINOR"
    ELSE IF prev_num_parts[1] # curr_num_parts[1] THEN "MAJOR"
    ELSE IF prev_num_parts[3] # curr_num_parts[3] THEN "PATCH"
    ELSE "FIRST"

\* Versioning._find_version_type
find_version_type(prev_num_parts, curr_num_parts) ==
    IF prev_num_parts[1] # curr_num_parts[1] THEN "MAJOR"
    ELSE IF prev_num_parts[2] # curr_num_parts[2] THEN "MINOR"
    ELSE IF prev_num_parts[3] # curr_num_parts[3] THEN "PATCH"
    ELSE "FIRST"

----------------------------------------------------------------------------
(* Floats.  A float is [k |-> "num", v |-> hundredths], NaN, or an infinity;  *)
(* np.log and the divisions are computed in fixed point.                      *)

Num(v) == [k |-> "num", v |-> v]
NaN == [k |-> "nan", v |-> 0]
PosInf == [k |-> "inf", v |-> 1]
NegInf == [k |-> "inf", v |-> -1]

IsNum(f) == f.k = "num"
IsNaN(f) == f.k = "nan"

\* f == 0.0 on floats: NaN and the infinities are not equal to 0.0
EqZero(f) == f.k = "num" /\ f.v = 0

\* np.round to the nearest integer of a / b, ties to the even neighbour
RoundDiv(a, b) ==
    LET p == IF b < 0 THEN -a ELSE a
        d == IF b < 0 THEN -b ELSE b
        q == p \div d
        r == p - q * d
    IN  IF 2 * r < d THEN q
        ELSE IF 2 * r > d THEN q + 1
        ELSE IF q % 2 = 0 THEN q ELSE q + 1

\* 2^k for k in 0..24
Pow2(k) ==
    <<1, 2, 4, 8, 16, 32, 64, 128, 256, 512, 1024, 2048, 4096, 8192, 16384, 32768,
      65536, 131072, 262144, 524288, 1048576, 2097152, 4194304, 8388608,
      16777216>>[k + 1]

\* floor(log2(v)) for v >= 1
RECURSIVE Log2Floor(_)
Log2Floor(v) == IF v < 2 THEN 0 ELSE 1 + Log2Floor(v \div 2)

\* ln(1 + 2^-k) in millionths, k = 1..20
LnTab == <<405465, 223144, 117783, 60625, 30772, 15504, 7782, 3899, 1951, 976,
           488, 244, 122, 61, 31, 15, 8, 4, 2, 1>>

\* ln 2 and ln 10000 in millionths
Ln2 == 693147
Ln10000 == 9210340

\* the mantissa scale of the logarithm: m in [MantOne, 2 * MantOne) is [1, 2)
MantOne == 16777216

\* multiply the mantissa m towards 2 by the factors (1 + 2^-k), k..20, and
\* return the sum of their logarithms
RECURSIVE LnFactors(_, _)
LnFactors(m, k) ==
    IF k > Len(LnTab) THEN 0
    ELSE LET t == m + (m \div Pow2(k))
         IN  IF t <= 2 * MantOne THEN LnTab[k] + LnFactors(t, k + 1)
             ELSE LnFactors(m, k + 1)

\* ln(v) in millionths for an integer v >= 1
LnInt(v) ==
    LET e == Log2Floor(v)
        m == IF e <= 24 THEN v * Pow2(24 - e) ELSE v \div Pow2(e - 24)
    IN  (e + 1) * Ln2 - LnFactors(m, 1)

\* utils.logscale then utils.s_shape then np.round(., 2) on x given in units
\* of 1/10000: log(1 + x) is NaN for x < -1 and -inf for x = -1, and s_shape
\* of either is NaN
Saturate(x4) ==
    LET y4 == 10000 + x4
    IN  IF y4 <= 0 THEN NaN
        ELSE LET L == LnInt(y4) - Ln10000
             IN  IF 1000000 + L = 0 THEN NegInf
                 ELSE Num(RoundDiv(100 * L, 1000000 + L))

\* a table built row by row, computed once
Table(f) == f @@ <<>>

\* a + b on floats
FAdd(a, b) ==
    IF IsNaN(a) \/ IsNaN(b) THEN NaN
    ELSE IF IsNum(a) /\ IsNum(b) THEN Num(a.v + b.v)
    ELSE IF IsNum(a) THEN b
    ELSE IF IsNum(b) THEN a
    ELSE IF a.v = b.v THEN a ELSE NaN

----------------------------------------------------------------------------
(* Timestamps and release rows *)

\* pd.NaT, the missing published_at
NaT == -1

\* a < b on timestamps the way sort_values(ascending=True) orders them:
\* na_position="last" puts NaT after every timestamp
DateBefore(a, b) == a # NaT /\ (b = NaT \/ a < b)

\* insertion of one row behind the rows that do not sort after it
RECURSIVE InsertRow(_, _)
InsertRow(s, r) ==
    IF s = <<>> THEN <<r>>
    ELSE IF DateBefore(r.published_at, s[1].published_at) THEN <<r>> \o s
    ELSE <<s[1]>> \o InsertRow(Tail(s), r)

\* rows.sort_values(by="published_at", ascending=True); rows of equal
\* published_at keep their file order, and Init draws every file order
RECURSIVE sort_values(_)
sort_values(rows) ==
    IF rows = <<>> THEN <<>>
    ELSE InsertRow(sort_values(SubSeq(rows, 1, Len(rows) - 1)), rows[Len(rows)])

\* number.str.contains("rc|dev|nightly")
str_contains_marker(number) ==
    \/ Contains(number, <<"r", "c">>)
    \/ Contains(number, <<"d", "e", "v">>)
    \/ Contains(number, <<"n", "i", "g", "h", "t", "l", "y">>)

\* Versioning._clean_version_data without the fallback to the full list
\* (the mutant of C3)
clean_version_data_nofallback(rows) ==
    SelectSeq(rows, LAMBDA r : ~str_contains_marker(r.number))

\* Versioning._clean_version_data
clean_version_data(rows) ==
    LET cleaned_version == SelectSeq(rows, LAMBDA r : ~str_contains_marker(r.number))
    IN  IF Len(cleaned_version) > 0 THEN cleaned_version ELSE rows

\* Versioning._update_series: the date is looked up by version number, and
\* .iloc[0] takes the first row of repo_versions that carries the number
update_series(repo_versions, version_num, vtype) ==
    LET first == CHOOSE i \in 1..Len(repo_versions) :
                     /\ repo_versions[i].number = version_num
                     /\ \A j \in 1..(i - 1) : repo_versions[j].number # version_num
    IN  <<repo_versions[first].published_at, vtype, version_num>>

\* the loop of Versioning._build_series with prev_num_parts never advanced
\* (the mutant of C5)
build_date_series_noadvance(repo_versions) ==
    <<>> \o [i \in 1..Len(repo_versions) |->
        update_series(repo_versions, repo_versions[i].number,
                      find_version_type(split_version_num(repo_versions[1].number),
                                        split_version_num(repo_versions[i].number)))]

\* the loop of Versioning._build_series: event i is classified against the
\* number of row i-1, and the first against itself
build_date_series(repo_versions) ==
    <<>> \o [i \in 1..Len(repo_versions) |->
        LET prev_num_parts ==
                split_version_num(repo_versions[IF i = 1 THEN 1 ELSE i - 1].number)
            curr_num_parts == split_version_num(repo_versions[i].number)
        IN  update_series(repo_versions, repo_versions[i].number,
                          find_version_type(prev_num_parts, curr_num_parts))]

\* the major token of an event: date[2].split(".")[0]
MajorOf(elt) == PySplit(elt[3])[1]

\* the number of decreases that flags a timeline
ParallelThreshold == 3

\* the loop returning only the major tokens seen up to the third decrease
\* (the mutant of C6)
RECURSIVE check_parallel_loop_seen(_, _, _)
check_parallel_loop_seen(majors, i, n_occurrences) ==
    IF i > Len(majors) - 1 THEN <<FALSE, {}>>
    ELSE IF StrGreater(majors[i], majors[i + 1])
         THEN IF n_occurrences + 1 >= ParallelThreshold
              THEN <<TRUE, {majors[k] : k \in 1..(i + 1)}>>
              ELSE check_parallel_loop_seen(majors, i + 1, n_occurrences + 1)
         ELSE check_parallel_loop_seen(majors, i + 1, n_occurrences)

\* the loop of Versioning.check_parallel_versions from position i with
\* n_occurrences decreases counted so far
RECURSIVE check_parallel_loop(_, _, _)
check_parallel_loop(majors, i, n_occurrences) ==
    IF i > Len(majors) - 1 THEN <<FALSE, {}>>
    ELSE IF StrGreater(majors[i], majors[i + 1])
         THEN IF n_occurrences + 1 >= ParallelThreshold
              THEN <<TRUE, {majors[k] : k \in 1..Len(majors)}>>
              ELSE check_parallel_loop(majors, i + 1, n_occurrences + 1)
         ELSE check_parallel_loop(majors, i + 1, n_occurrences)

\* Versioning.check_parallel_versions: (flag, set of major tokens)
check_parallel_versions(ds) ==
    check_parallel_loop(<<>> \o [i \in 1..Len(ds) |-> MajorOf(ds[i])], 1, 0)

\* sorted(keys): the keys of a dict in ascending str order
RECURSIVE SortedKeys(_)
SortedKeys(keys) ==
    IF keys = {} THEN <<>>
    ELSE LET least == CHOOSE k \in keys : \A o \in keys \ {k} : StrLess(k, o)
         IN  <<least>> \o SortedKeys(keys \ {least})

\* the major tokens of ds in order of first appearance
RECURSIVE FirstSeenKeys(_, _)
FirstSeenKeys(ds, seen) ==
    IF ds = <<>> THEN <<>>
    ELSE IF MajorOf(ds[1]) \in seen THEN FirstSeenKeys(Tail(ds), seen)
    ELSE <<MajorOf(ds[1])>> \o FirstSeenKeys(Tail(ds), seen \cup {MajorOf(ds[1])})

\* Versioning.track_parallel_versions without sorted(): the items in the
\* order the keys first appear (the mutant of C8)
track_parallel_versions_unsorted(ds, major_versions) ==
    LET keys == FirstSeenKeys(ds, {})
    IN  <<>> \o [k \in 1..Len(keys) |->
            <<keys[k], SelectSeq(ds, LAMBDA elt : MajorOf(elt) = keys[k])>>]

\* Versioning.track_parallel_versions assigning [elt] instead of adding it:
\* a sub-series holds only the last event of its token (the mutant of C29)
track_parallel_versions_assign(ds, major_versions) ==
    LET keys == SortedKeys(major_versions)
        last(k) == CHOOSE i \in 1..Len(ds) :
                       /\ MajorOf(ds[i]) = k
                       /\ \A j \in (i + 1)..Len(ds) : MajorOf(ds[j]) # k
    IN  <<>> \o [k \in 1..Len(keys) |-> <<keys[k], <<ds[last(keys[k])]>> >>]

\* Versioning.track_parallel_versions: the OrderedDict as a sequence of
\* (major token, sub-series) items in key order
track_parallel_versions(ds, major_versions) ==
    LET keys == SortedKeys(major_versions)
    IN  <<>> \o [k \in 1..Len(keys) |->
            <<keys[k], SelectSeq(ds, LAMBDA elt : MajorOf(elt) = keys[k])>>]

\* the tail of Versioning._build_series with the test of has_parallel_versions
\* left out: every timeline is partitioned (the mutant of C25)
build_parallel_series_always(ds) ==
    track_parallel_versions(ds, {MajorOf(ds[i]) : i \in 1..Len(ds)})

\* the tail of Versioning._build_series: parallel_date_series[id]
build_parallel_series(ds) ==
    LET res == check_parallel_versions(ds)
    IN  IF res[1] THEN track_parallel_versions(ds, res[2]) ELSE <<>>

----------------------------------------------------------------------------
(* Versioning.__init__ *)

\* the merged rows of every repository taken for the rows of r: the selection
\* self.version.repository_id == id left out (the mutant of C18)
RECURSIVE merged_rows_all(_, _, _, _)
merged_rows_all(vcsv, ccsv, r, ps) ==
    IF ps = {} THEN <<>>
    ELSE LET p == CHOOSE q \in ps : \A o \in ps : q <= o
         IN  (<<>> \o [i \in 1..Len(vcsv[p]) |-> [project_id |-> p] @@ vcsv[p][i]])
             \o merged_rows_all(vcsv, ccsv, r, ps \ {p})

\* the merged rows of repository r among the projects ps, in file order (the
\* release file lists project after project), each row with its project_id
RECURSIVE merged_rows(_, _, _, _)
merged_rows(vcsv, ccsv, r, ps) ==
    IF ps = {} THEN <<>>
    ELSE LET p == CHOOSE q \in ps : \A o \in ps : q <= o
         IN  (IF ccsv[p] = r
              THEN <<>> \o [i \in 1..Len(vcsv[p]) |-> [project_id |-> p] @@ vcsv[p][i]]
              ELSE <<>>)
             \o merged_rows(vcsv, ccsv, r, ps \ {p})

\* pd.merge(..., how="right"): a summary row without release rows is kept as
\* one merged row of missing number and dates (the mutant of C12)
merge_right(vcsv, ccsv) ==
    LET joined == DOMAIN vcsv \cap DOMAIN ccsv
        padded == [p \in DOMAIN vcsv |->
                     IF vcsv[p] = <<>>
                     THEN << [number |-> <<>>, published_at |-> NaT, updated_at |-> NaT] >>
                     ELSE vcsv[p]]
    IN  [r \in {ccsv[p] : p \in joined} |-> merged_rows(padded, ccsv, r, joined)]

\* pd.merge(version[v_cols], versioning, on="project_id"): an inner join, the
\* rows of a project without a summary row and the summary rows of a project
\* without release rows are left out; the result is given per repository_id,
\* the way _set_version_series selects it
merge(vcsv, ccsv) ==
    LET joined == {p \in DOMAIN vcsv : p \in DOMAIN ccsv /\ vcsv[p] # <<>>}
    IN  [r \in {ccsv[p] : p \in joined} |-> merged_rows(vcsv, ccsv, r, joined)]

\* max over a column of project ids
MaxId(ids) == CHOOSE p \in ids : \A o \in ids : o <= p

\* max over a column of timestamps, NaT skipped
RECURSIVE MaxDate(_)
MaxDate(ds) ==
    IF ds = <<>> THEN NaT
    ELSE LET m == MaxDate(Tail(ds))
         IN  IF ds[1] = NaT THEN m ELSE IF m = NaT \/ ds[1] > m THEN ds[1] ELSE m

\* the repo_versions of Versioning._set_version_series for one id
repo_versions_of(rows) == clean_version_data(sort_values(rows))

\* Versioning.__init__: merge, group by repository, then
\* _set_version_series over every repository of the table
Construct ==
    /\ pc = "start"
    /\ LET merged == merge(version_csv, count_csv)
       IN  /\ version' = merged
           /\ versioning' =
                [id \in DOMAIN merged |->
                    [project_id |->
                        MaxId({merged[id][i].project_id : i \in 1..Len(merged[id])}),
                     updated_at |->
                        MaxDate([i \in 1..Len(merged[id]) |-> merged[id][i].updated_at])]]
           /\ date_series' =
                [id \in DOMAIN merged |-> build_date_series(repo_versions_of(merged[id]))]
           /\ parallel_date_series' =
                [id \in DOMAIN merged |->
                    build_parallel_series(build_date_series(repo_versions_of(merged[id])))]
    /\ calls' = calls \o <<"__init__">>
    /\ pc' = "constructed"
    /\ UNCHANGED <<version_csv, count_csv, n, deltatimes>>
    /\ UNCHANGED tokVars

----------------------------------------------------------------------------
(* Counts *)

CountKind(ds, kind) == Cardinality({i \in 1..Len(ds) : ds[i][2] = kind})

\* Versioning._num_versions_weighted_sum counting no MAJOR event (the mutant
\* of C11)
num_versions_weighted_sum_nomajor(ds) ==
    LET minors  == CountKind(ds, "MINOR")
        patches == CountKind(ds, "PATCH")
    IN  [major_count |-> 0, minor_count |-> minors, patch_count |-> patches,
         sum8 |-> 2 * minors + patches]

\* Versioning._num_versions_weighted_sum: the three counts written to the
\* table and the weighted sum, in eighths
num_versions_weighted_sum(ds) ==
    LET majors  == CountKind(ds, "MAJOR")
        minors  == CountKind(ds, "MINOR")
        patches == CountKind(ds, "PATCH")
    IN  [major_count |-> majors, minor_count |-> minors, patch_count |-> patches,
         sum8 |-> 5 * majors + 2 * minors + patches]

\* Versioning.number_version_score on the table
number_version_score(tbl, dss) ==
    Table([id \in DOMAIN tbl |->
        LET r == num_versions_weighted_sum(dss[id])
        IN  [major_count |-> r.major_count,
             minor_count |-> r.minor_count,
             patch_count |-> r.patch_count,
             weighted_count |-> Saturate(1250 * r.sum8)] @@ tbl[id]])

----------------------------------------------------------------------------
(* Intervals *)

\* date2days(a - b) passed on without the test for 0.0 of none_nat2nan (the
\* mutant of C13)
deltatime_keepzero(a, b) ==
    IF a = NaT \/ b = NaT THEN NaN ELSE Num(100 * (a - b))

\* none_nat2nan(date2days(a - b)) in hundredths of a day: NaN when a
\* timestamp is missing or the gap is 0
deltatime(a, b) ==
    IF a = NaT \/ b = NaT \/ a = b THEN NaN ELSE Num(100 * (a - b))

\* the single-timeline loop appending a gap only when it is defined (the
\* mutant of C30)
KindDeltas_defined(ds, kind) ==
    LET idx == SelectSeq([i \in 1..Len(ds) |-> i],
                         LAMBDA i : /\ i > 1 /\ ds[i][2] = kind
                                    /\ IsNum(deltatime(ds[i][1], ds[i - 1][1])))
    IN  <<>> \o [j \in 1..Len(idx) |-> deltatime(ds[idx[j]][1], ds[idx[j] - 1][1])]

\* the single-timeline loop with prev_date left alone by an event of kind
\* FIRST: a gap is measured from the last event before it that is the first
\* of the timeline or not of kind FIRST (the mutant of C21)
KindDeltas_skipfirst(ds, kind) ==
    LET idx == SelectSeq([i \in 1..Len(ds) |-> i],
                         LAMBDA i : i > 1 /\ ds[i][2] = kind)
        ref(i) == CHOOSE r \in 1..(i - 1) :
                      /\ r = 1 \/ ds[r][2] # "FIRST"
                      /\ \A q \in (r + 1)..(i - 1) : ds[q][2] = "FIRST"
    IN  <<>> \o [j \in 1..Len(idx) |-> deltatime(ds[idx[j]][1], ds[ref(idx[j])][1])]

\* the single-timeline loop of Versioning._build_deltatime_series: the gaps of
\* the events of one kind, each measured from the event before it
KindDeltas(ds, kind) ==
    LET idx == SelectSeq([i \in 1..Len(ds) |-> i],
                         LAMBDA i : i > 1 /\ ds[i][2] = kind)
    IN  <<>> \o [j \in 1..Len(idx) |-> deltatime(ds[idx[j]][1], ds[idx[j] - 1][1])]

\* the loop of Versioning._get_minor_patch_deltatimes from event i on;
\* prev_num_parts is set at the first event of the group and never again
RECURSIVE minor_patch_loop(_, _, _, _, _)
minor_patch_loop(mds, i, prev_num_parts, prev_minor_date, prev_patch_date) ==
    IF i > Len(mds) THEN [minors |-> <<>>, patches |-> <<>>]
    ELSE LET date == mds[i][1]
             parts == split_version_num(mds[i][3])
         IN  IF StrGreater(parts[2], prev_num_parts[2])
             THEN LET rest == minor_patch_loop(mds, i + 1, prev_num_parts, date, date)
                  IN  [minors |-> <<deltatime(date, prev_minor_date)>> \o rest.minors,
                       patches |-> rest.patches]
             ELSE IF StrGreater(parts[3], prev_num_parts[3])
             THEN LET rest == minor_patch_loop(mds, i + 1, prev_num_parts,
                                               prev_minor_date, date)
                  IN  [minors |-> rest.minors,
                       patches |-> <<deltatime(date, prev_patch_date)>> \o rest.patches]
             ELSE minor_patch_loop(mds, i + 1, prev_num_parts,
                                   prev_minor_date, prev_patch_date)

\* Versioning._get_minor_patch_deltatimes
get_minor_patch_deltatimes(mds) ==
    IF mds = <<>> THEN [minors |-> <<>>, patches |-> <<>>]
    ELSE minor_patch_loop(mds, 2, split_version_num(mds[1][3]), mds[1][1], mds[1][1])

\* the loop with prev_date taken from the last event of the group before
\* (the mutant of C23)
RECURSIVE parallel_deltatime_loop_lastdate(_, _)
parallel_deltatime_loop_lastdate(pds, i) ==
    IF i > Len(pds) THEN [majors |-> <<>>, minors |-> <<>>, patches |-> <<>>]
    ELSE LET group == pds[i][2]
             mp    == get_minor_patch_deltatimes(group)
             rest  == parallel_deltatime_loop_lastdate(pds, i + 1)
             major == IF i > 1
                      THEN <<deltatime(group[1][1],
                                       pds[i - 1][2][Len(pds[i - 1][2])][1])>>
                      ELSE <<>>
         IN  [majors  |-> major \o rest.majors,
              minors  |-> mp.minors \o rest.minors,
              patches |-> mp.patches \o rest.patches]

\* the loop of Versioning._build_parallel_deltatime_series from group i on
RECURSIVE parallel_deltatime_loop(_, _)
parallel_deltatime_loop(pds, i) ==
    IF i > Len(pds) THEN [majors |-> <<>>, minors |-> <<>>, patches |-> <<>>]
    ELSE LET group == pds[i][2]
             mp    == get_minor_patch_deltatimes(group)
             rest  == parallel_deltatime_loop(pds, i + 1)
             major == IF i > 1
                      THEN <<deltatime(group[1][1], pds[i - 1][2][1][1])>>
                      ELSE <<>>
         IN  [majors  |-> major \o rest.majors,
              minors  |-> mp.minors \o rest.minors,
              patches |-> mp.patches \o rest.patches]

\* Versioning._build_parallel_deltatime_series
build_parallel_deltatime_series(pds) == parallel_deltatime_loop(pds, 1)

\* Versioning._build_deltatime_series
build_deltatime_series(ds, pds) ==
    IF Len(pds) > 0 THEN build_parallel_deltatime_series(pds)
    ELSE [majors  |-> KindDeltas(ds, "MAJOR"),
          minors  |-> KindDeltas(ds, "MINOR"),
          patches |-> KindDeltas(ds, "PATCH")]

RECURSIVE SumNum(_)
SumNum(v) ==
    IF v = <<>> THEN 0
    ELSE (IF IsNum(v[1]) THEN v[1].v ELSE 0) + SumNum(Tail(v))

\* The event a gap ends at is the event whose timestamp the subtraction
\* starts from.  It is written <<g, i>>: event i of group g of the partition,
\* or event i of the timeline when g = 0.

\* the single-timeline loop: the gap appended at iteration i is
\* date[0] - prev_date with date the event i
KindEnds(ds, kind) ==
    LET idx == SelectSeq([i \in 1..Len(ds) |-> i],
                         LAMBDA i : i > 1 /\ ds[i][2] = kind)
    IN  <<>> \o [j \in 1..Len(idx) |-> <<0, idx[j]>>]

\* the loop of _get_minor_patch_deltatimes over group g: a gap appended at
\* iteration i is date - prev_minor_date or date - prev_patch_date with date
\* the timestamp of event i
RECURSIVE minor_patch_ends_loop(_, _, _, _)
minor_patch_ends_loop(mds, g, i, prev_num_parts) ==
    IF i > Len(mds) THEN [minors |-> <<>>, patches |-> <<>>]
    ELSE LET parts == split_version_num(mds[i][3])
             rest  == minor_patch_ends_loop(mds, g, i + 1, prev_num_parts)
         IN  IF StrGreater(parts[2], prev_num_parts[2])
             THEN [minors |-> << <<g, i>> >> \o rest.minors, patches |-> rest.patches]
             ELSE IF StrGreater(parts[3], prev_num_parts[3])
             THEN [minors |-> rest.minors, patches |-> << <<g, i>> >> \o rest.patches]
             ELSE rest

\* the loop appending a major gap at the first group as well, the test
\* i > 0 left out (the mutant of C24)
RECURSIVE parallel_ends_loop_everygroup(_, _)
parallel_ends_loop_everygroup(pds, i) ==
    IF i > Len(pds) THEN [majors |-> <<>>, minors |-> <<>>, patches |-> <<>>]
    ELSE LET group == pds[i][2]
             mp    == minor_patch_ends_loop(group, i, 2, split_version_num(group[1][3]))
             rest  == parallel_ends_loop_everygroup(pds, i + 1)
         IN  [majors  |-> << <<i, 1>> >> \o rest.majors,
              minors  |-> mp.minors \o rest.minors,
              patches |-> mp.patches \o rest.patches]

\* the loop of _build_parallel_deltatime_series from group i on: the major
\* gap appended at iteration i is date_series[major_num][0][0] - prev_date
RECURSIVE parallel_ends_loop(_, _)
parallel_ends_loop(pds, i) ==
    IF i > Len(pds) THEN [majors |-> <<>>, minors |-> <<>>, patches |-> <<>>]
    ELSE LET group == pds[i][2]
             mp    == minor_patch_ends_loop(group, i, 2, split_version_num(group[1][3]))
             rest  == parallel_ends_loop(pds, i + 1)
         IN  [majors  |-> (IF i > 1 THEN << <<i, 1>> >> ELSE <<>>) \o rest.majors,
              minors  |-> mp.minors \o rest.minors,
              patches |-> mp.patches \o rest.patches]

\* the events the gaps of _build_deltatime_series end at, bucket by bucket
deltatime_ends(ds, pds) ==
    IF Len(pds) > 0 THEN parallel_ends_loop(pds, 1)
    ELSE [majors  |-> KindEnds(ds, "MAJOR"),
          minors  |-> KindEnds(ds, "MINOR"),
          patches |-> KindEnds(ds, "PATCH")]

\* the value of deltatimes where _meantime_weighted_sum returned before the
\* call of _build_deltatime_series
NotBuilt ==
    [majors |-> <<>>, minors |-> <<>>, patches |-> <<>>, built |-> FALSE,
     ends |-> [majors |-> <<>>, minors |-> <<>>, patches |-> <<>>]]

\* the (majors, minors, patches) that _build_deltatime_series returns to
\* _meantime_weighted_sum for every repository of the table, with the events
\* the gaps end at
deltatime_series(tbl, dss, pdss) ==
    [id \in DOMAIN tbl |->
        IF Len(dss[id]) < 2 THEN NotBuilt
        ELSE build_deltatime_series(dss[id], pdss[id])
                @@ [built |-> TRUE, ends |-> deltatime_ends(dss[id], pdss[id])]]

\* np.round(np.nanmean(v), 2) if len(v) > 0 else np.nan: the mean of the
\* defined gaps, NaN when there is none
bucket_mean(v) ==
    LET defined == SelectSeq(v, IsNum)
    IN  IF Len(defined) = 0 THEN NaN
        ELSE Num(RoundDiv(SumNum(defined), Len(defined)))

\* w / mean if not (np.isnan(mean) or mean == 0) else 0.0, in units of 1/10000
mean_component(w, mean) ==
    IF IsNaN(mean) \/ mean.v = 0 THEN 0 ELSE RoundDiv(1000000 * w, mean.v)

\* Versioning._meantime_weighted_sum without its early return (the mutant of
\* C10)
meantime_weighted_sum_noreturn(ds, pds) ==
    LET d == build_deltatime_series(ds, pds)
        means == <<bucket_mean(d.majors), bucket_mean(d.minors),
                   bucket_mean(d.patches)>>
    IN  [major_meantime |-> means[1], minor_meantime |-> means[2],
         patch_meantime |-> means[3],
         weighted_meantime |->
             Saturate(mean_component(6, means[1]) + mean_component(4, means[2])
                      + mean_component(2, means[3]))]

\* Versioning._meantime_weighted_sum: the means written to the table (they
\* stay 0.0 on the early return) and the returned sub-score
meantime_weighted_sum(ds, pds) ==
    IF Len(ds) < 2
    THEN [major_meantime |-> Num(0), minor_meantime |-> Num(0),
          patch_meantime |-> Num(0), weighted_meantime |-> Num(0)]
    ELSE LET d == build_deltatime_series(ds, pds)
             means == <<bucket_mean(d.majors), bucket_mean(d.minors),
                        bucket_mean(d.patches)>>
         IN  [major_meantime |-> means[1], minor_meantime |-> means[2],
              patch_meantime |-> means[3],
              weighted_meantime |->
                  Saturate(mean_component(6, means[1]) + mean_component(4, means[2])
                           + mean_component(2, means[3]))]

\* Versioning.version_meantime_score on the table
version_meantime_score(tbl, dss, pdss) ==
    Table([id \in DOMAIN tbl |-> meantime_weighted_sum(dss[id], pdss[id]) @@ tbl[id]])

----------------------------------------------------------------------------
(* Frequencies *)

\* np.round(count / (ages / (365 / k)), 2) in hundredths, ages in days (NaT
\* for an undefined age): x / 0.0 is inf, 0.0 / 0.0 is NaN
freq(count, age_defined, age, k) ==
    IF ~age_defined THEN NaN
    ELSE IF age = 0 THEN (IF count = 0 THEN NaN ELSE PosInf)
    ELSE Num(RoundDiv(36500 * count, k * age))

\* s_shape(logscale(minor_freq + patch_freq)) rounded: log(1 + inf) is inf and
\* s_shape(inf) is NaN
weighted_freq_of(minor_freq, patch_freq) ==
    LET f == FAdd(minor_freq, patch_freq)
    IN  IF IsNum(f) THEN Saturate(100 * f.v) ELSE NaN

\* Versioning.version_frequency on the table
version_frequency(tbl0, dss) ==
    LET tbl == IF \E id \in DOMAIN tbl0 : "weighted_count" \notin DOMAIN tbl0[id]
               THEN number_version_score(tbl0, dss) ELSE tbl0
    IN  Table([id \in DOMAIN tbl |->
            LET first   == dss[id][1][1]
                defined == tbl[id].updated_at # NaT /\ first # NaT
                age     == tbl[id].updated_at - first
                minor   == freq(tbl[id].minor_count, defined, age, 3)
                patch   == freq(tbl[id].patch_count, defined, age, 18)
            IN  [major_freq |-> freq(tbl[id].major_count, defined, age, 1),
                 minor_freq |-> minor,
                 patch_freq |-> patch,
                 weighted_freq |-> weighted_freq_of(minor, patch)] @@ tbl[id]])

----------------------------------------------------------------------------
(* Versioning.score *)

\* the denominator with the frequency test left out (the mutant of C9)
score_n_meantime_only(row) ==
    3 - (IF EqZero(row.weighted_meantime) THEN 1 ELSE 0)

\* the denominator n of Versioning.score for one table row
score_n(row) ==
    3 - (IF EqZero(row.weighted_meantime) THEN 1 ELSE 0)
      - (IF EqZero(row.weighted_freq) THEN 1 ELSE 0)

\* np.nansum of the three sub-scores: a NaN counts as 0
nansum3(a, b, c) ==
    LET z(f) == IF IsNaN(f) THEN Num(0) ELSE f
    IN  FAdd(FAdd(z(a), z(b)), z(c))

\* np.round(100 * nansum / n, 2)
score_value(sum, den) == IF IsNum(sum) THEN Num(RoundDiv(100 * sum.v, den)) ELSE sum

\* the last statements of Versioning.score: n from the columns the first
\* three stage calls leave (t3), the sum from the values the second three
\* return (t4, t5, t6), and the score column written to the table
score_table(t3, t4, t5, t6) ==
    [n_series |-> [id \in DOMAIN t3 |-> score_n(t3[id])],
     versioning |->
        [id \in DOMAIN t6 |->
            [versioning_openteams_score |->
                score_value(nansum3(t4[id].weighted_count,
                                    t5[id].weighted_meantime,
                                    t6[id].weighted_freq),
                            score_n(t3[id]))] @@ t6[id]]]

\* score() called on a table that was normalized as well (the mutant of C17)
ScoreMayStartLate == pc \in {"constructed", "normalized"}

\* versioning_score calls score() once, on the object it has just constructed
ScoreMayStart == pc = "constructed"

\* versioning.score() in OpenTeamsScore.versioning_score: Versioning.score
\* runs the three stages for n, then the three stages again for the sum
Score ==
    /\ ScoreMayStart
    /\ \E t1 \in {number_version_score(versioning, date_series)} :
       \E t2 \in {version_meantime_score(t1, date_series, parallel_date_series)} :
       \E t3 \in {version_frequency(t2, date_series)} :
       \E t4 \in {number_version_score(t3, date_series)} :
       \E t5 \in {version_meantime_score(t4, date_series, parallel_date_series)} :
       \E t6 \in {version_frequency(t5, date_series)} :
       \E res \in {score_table(t3, t4, t5, t6)} :
          /\ versioning' = res.versioning
          /\ n' = res.n_series
    /\ deltatimes' = deltatime_series(versioning, date_series, parallel_date_series)
    /\ calls' = calls \o <<"score", "number_version_score", "version_meantime_score",
                           "version_frequency", "number_version_score",
                           "version_meantime_score", "version_frequency">>
    /\ pc' = "scored"
    /\ UNCHANGED <<version_csv, count_csv, version, date_series, parallel_date_series>>
    /\ UNCHANGED tokVars

----------------------------------------------------------------------------
(* Versioning.compute_component_zscores *)

\* Versioning.get_json_cols
get_json_cols ==
    <<"major_meantime", "minor_meantime", "patch_meantime",
      "major_count", "minor_count", "patch_count",
      "major_freq", "minor_freq", "patch_freq",
      "versioning_openteams_score">>

\* a / b <= c / d for a, c >= 0 and b, d > 0, by continued fractions (no
\* product is formed)
RECURSIVE FracLeq(_, _, _, _)
FracLeq(a, b, c, d) ==
    IF a \div b # c \div d THEN a \div b < c \div d
    ELSE IF a % b = 0 THEN TRUE
    ELSE IF c % d = 0 THEN FALSE
    ELSE FracLeq(d, c % d, b, a % b)

\* floor(sqrt(v)) searched in lo..hi
RECURSIVE IsqrtIn(_, _, _)
IsqrtIn(v, lo, hi) ==
    IF lo >= hi THEN lo
    ELSE IF ((lo + hi + 1) \div 2) <= v \div ((lo + hi + 1) \div 2)
         THEN IsqrtIn(v, (lo + hi + 1) \div 2, hi)
         ELSE IsqrtIn(v, lo, ((lo + hi + 1) \div 2) - 1)

Isqrt(v) == IsqrtIn(v, 0, 46340)

\* np.round(a / sqrt(d), 2) in hundredths for a >= 0 and d > 0: the q with
\* (2q - 1)^2 / 40000 <= a^2 / d <= (2q + 1)^2 / 40000, the even one at a tie
ZRound(a, d) ==
    LET lo == (100 * a) \div (Isqrt(d) + 1)
        hi == ((100 * a) \div Isqrt(d)) + 1
        below(q) == q = 0 \/ FracLeq((2 * q - 1) * (2 * q - 1), 40000, a * a, d)
        above(q) == FracLeq(a * a, d, (2 * q + 1) * (2 * q + 1), 40000)
        fits == {q \in lo..hi : below(q) /\ above(q)}
    IN  IF \E q \in fits : q % 2 = 0 /\ Cardinality(fits) = 2
        THEN CHOOSE q \in fits : q % 2 = 0
        ELSE CHOOSE q \in fits : \A o \in fits : q <= o

RECURSIVE SumOver(_, _)
SumOver(f, ids) ==
    IF ids = {} THEN 0
    ELSE LET id == CHOOSE i \in ids : TRUE
         IN  f[id] + SumOver(f, ids \ {id})

\* scipy.stats.zscore(column, nan_policy="omit") then np.round(., 2) without
\* the omission: a NaN entry counts as 0.0 (the mutant of C14)
zscore_nan_as_zero(column) ==
    LET ids  == DOMAIN column
        val  == [id \in ids |-> IF IsNum(column[id]) THEN column[id].v ELSE 0]
        cnt  == Cardinality(ids)
        dev  == [id \in ids |-> cnt * val[id] - SumOver(val, ids)]
        d    == cnt * SumOver([id \in ids |-> val[id] * val[id]], ids)
                - SumOver(val, ids) * SumOver(val, ids)
    IN  [id \in ids |->
            IF d = 0 THEN NaN
            ELSE IF dev[id] >= 0 THEN Num(ZRound(dev[id], d))
            ELSE Num(-ZRound(-dev[id], d))]

\* the z-score of every project taken over the project alone: a cohort of
\* one, of no deviation (the mutant of C16)
zscore_per_project(column) == [id \in DOMAIN column |-> NaN]

\* scipy.stats.zscore(column, nan_policy="omit") then np.round(., 2): mean
\* and population standard deviation over the entries that are not NaN; with
\* cnt such entries of sum s, (x - mean) / std is (cnt*x - s) / sqrt(d) for
\* d = cnt * (sum of squares) - s^2.  NaN stays NaN, a zero deviation
\* (0 / 0) and an infinity in the column make every entry NaN.
zscore(column) ==
    LET ids  == {id \in DOMAIN column : IsNum(column[id])}
        val  == [id \in ids |-> column[id].v]
        cnt  == Cardinality(ids)
        dev  == [id \in ids |-> cnt * val[id] - SumOver(val, ids)]
        d    == cnt * SumOver([id \in ids |-> val[id] * val[id]], ids)
                - SumOver(val, ids) * SumOver(val, ids)
    IN  [id \in DOMAIN column |->
            IF id \notin ids \/ (\E o \in DOMAIN column : column[o].k = "inf") THEN NaN
            ELSE IF d = 0 THEN NaN
            ELSE IF dev[id] >= 0 THEN Num(ZRound(dev[id], d))
            ELSE Num(-ZRound(-dev[id], d))]

\* the column col of the metrics table as floats; the three count columns
\* hold whole numbers
column_of(tbl, col) ==
    [id \in DOMAIN tbl |->
        IF col \in {"major_count", "minor_count", "patch_count"}
        THEN Num(100 * tbl[id][col])
        ELSE tbl[id][col]]

\* the z-scores of every column of get_json_cols
component_zscores(tbl) ==
    [i \in 1..Len(get_json_cols) |-> zscore(column_of(tbl, get_json_cols[i]))] @@ <<>>

\* the assignment of the z-score columns with the score's z-score added to
\* the one a run before left in the table (the mutant of C15)
with_zscores_accumulated(tbl, z) ==
    [id \in DOMAIN tbl |->
        [major_meantime_zscore |-> z[1][id],
         minor_meantime_zscore |-> z[2][id],
         patch_meantime_zscore |-> z[3][id],
         major_count_zscore |-> z[4][id],
         minor_count_zscore |-> z[5][id],
         patch_count_zscore |-> z[6][id],
         major_freq_zscore |-> z[7][id],
         minor_freq_zscore |-> z[8][id],
         patch_freq_zscore |-> z[9][id],
         versioning_openteams_score_zscore |->
            IF "versioning_openteams_score_zscore" \in DOMAIN tbl[id]
            THEN FAdd(tbl[id].versioning_openteams_score_zscore, z[10][id])
            ELSE z[10][id]] @@ tbl[id]]

\* self.versioning[col + "_zscore"] = zscore_ for every col of get_json_cols,
\* z[i] being the z-scores of the i-th: a column of that name is replaced
with_zscores(tbl, z) ==
    [id \in DOMAIN tbl |->
        [major_meantime_zscore |-> z[1][id],
         minor_meantime_zscore |-> z[2][id],
         patch_meantime_zscore |-> z[3][id],
         major_count_zscore |-> z[4][id],
         minor_count_zscore |-> z[5][id],
         patch_count_zscore |-> z[6][id],
         major_freq_zscore |-> z[7][id],
         minor_freq_zscore |-> z[8][id],
         patch_freq_zscore |-> z[9][id],
         versioning_openteams_score_zscore |-> z[10][id]] @@ tbl[id]]

\* the number of calls of method in a call log
CallsOf(log, method) == Cardinality({i \in 1..Len(log) : log[i] = method})

\* most runs of compute_component_zscores on one table
MaxNormalizerRuns == 2

\* versioning.compute_component_zscores() in OpenTeamsScore.versioning_score,
\* and a caller running it again on the table: every col + "_zscore" column
\* is written from the column col
ComputeComponentZscores ==
    /\ pc \in {"scored", "normalized"}
    /\ CallsOf(calls, "compute_component_zscores") < MaxNormalizerRuns
    /\ \E z \in {component_zscores(versioning)} :
          versioning' = with_zscores(versioning, z)
    /\ calls' = calls \o <<"compute_component_zscores">>
    /\ pc' = "normalized"
    /\ UNCHANGED <<version_csv, count_csv, version, date_series, parallel_date_series,
                   n, deltatimes>>
    /\ UNCHANGED tokVars

----------------------------------------------------------------------------
(* Spec: one scoring run over drawn release rows *)

\* most release rows of a project
MaxRows == 3
\* latest publication day
MaxDay == 3
\* most release rows of the project of SpecPar
MaxParRows == 6

Projects == {1}

\* "1", "1.0", "1.1", "2.0.1", "1.0rc", "2dev", "nightly"
Numbers ==
    { <<"1">>, <<"1", ".", "0">>, <<"1", ".", "1">>, <<"2", ".", "0", ".", "1">>,
      <<"1", ".", "0", "r", "c">>, <<"2", "d", "e", "v">>,
      <<"n", "i", "g", "h", "t", "l", "y">> }

Dates == (1..MaxDay) \cup {NaT}

UpdatedAts == {1, MaxDay + 30}

RowsOf(f, u) ==
    <<>> \o [i \in DOMAIN f |->
                [number |-> f[i][1], published_at |-> f[i][2], updated_at |-> u]]

TokIdle ==
    /\ num = <<>>
    /\ num2 = <<>>
    /\ num_parts = <<>>
    /\ version_type = "none"

PipeStart ==
    /\ count_csv = [p \in Projects |-> p]
    /\ version = <<>>
    /\ versioning = <<>>
    /\ date_series = <<>>
    /\ parallel_date_series = <<>>
    /\ n = <<>>
    /\ deltatimes = <<>>
    /\ calls = <<>>
    /\ pc = "start"

Init ==
    /\ \E u \in UpdatedAts, k \in 0..MaxRows :
         \E f \in [1..k -> Numbers \X Dates] :
            version_csv = [p \in Projects |-> RowsOf(f, u)]
    /\ PipeStart
    /\ TokIdle

Next == Construct \/ Score

Spec == Init /\ [][Next]_vars

----------------------------------------------------------------------------
(* SpecPar: the construction over longer histories of bare major versions *)

\* "1", "2", "3", "20", "110", "1000"
ParNumbers ==
    { <<"1">>, <<"2">>, <<"3">>, <<"2", "0">>, <<"1", "1", "0">>,
      <<"1", "0", "0", "0">> }

InitPar ==
    /\ \E k \in 1..MaxParRows :
         \E f \in [1..k -> ParNumbers] :
            version_csv =
                [p \in Projects |->
                    [i \in 1..k |-> [number |-> f[i], published_at |-> i,
                                     updated_at |-> k + 1]]]
    /\ PipeStart
    /\ TokIdle

NextPar == Construct

SpecPar == InitPar /\ [][NextPar]_vars

----------------------------------------------------------------------------
(* SpecBatch: a scoring run and the normalization over several projects *)

\* most projects of a batch
MaxProjects == 3

BatchProjects == 1..MaxProjects

\* the updated_at of the release rows of a batch
BatchUpdatedAt == 40

ReleaseRow(number, published_at, updated_at) ==
    [number |-> number, published_at |-> published_at, updated_at |-> updated_at]

\* the release histories a project of a batch can have: none; a single
\* release; 1.0.0, 1.1.0, 1.1.1, 2.0.0 on four increasing days, in file order
\* and in reverse file order; two majors; a minor published on the day of its
\* predecessor; two majors last updated on the day of the first release
BatchHistories ==
    { <<>>,
      << ReleaseRow(<<"1">>, 1, BatchUpdatedAt) >>,
      << ReleaseRow(<<"1", ".", "0", ".", "0">>, 1, BatchUpdatedAt),
         ReleaseRow(<<"1", ".", "1", ".", "0">>, 2, BatchUpdatedAt),
         ReleaseRow(<<"1", ".", "1", ".", "1">>, 3, BatchUpdatedAt),
         ReleaseRow(<<"2", ".", "0", ".", "0">>, 4, BatchUpdatedAt) >>,
      << ReleaseRow(<<"2", ".", "0", ".", "0">>, 9, BatchUpdatedAt),
         ReleaseRow(<<"1", ".", "1", ".", "1">>, 5, BatchUpdatedAt),
         ReleaseRow(<<"1", ".", "1", ".", "0">>, 3, BatchUpdatedAt),
         ReleaseRow(<<"1", ".", "0", ".", "0">>, 2, BatchUpdatedAt) >>,
      << ReleaseRow(<<"1">>, 1, BatchUpdatedAt),
         ReleaseRow(<<"2">>, 3, BatchUpdatedAt) >>,
      << ReleaseRow(<<"1">>, 1, BatchUpdatedAt),
         ReleaseRow(<<"1", ".", "1">>, 1, BatchUpdatedAt) >>,
      << ReleaseRow(<<"1">>, 1, 1),
         ReleaseRow(<<"2">>, 3, 1) >> }

\* the summary files of a batch: a project has no summary row, or one naming
\* its own repository, or one naming the repository of project 1
BatchSummaries ==
    {f \in UNION {[S -> BatchProjects] : S \in SUBSET BatchProjects} :
        \A p \in DOMAIN f : f[p] \in {p, 1}}

\* a batch of which at least one release row has a summary row
InitBatch ==
    /\ \E hist \in [BatchProjects -> BatchHistories], repos \in BatchSummaries :
          /\ DOMAIN merge(hist, repos) # {}
          /\ version_csv = hist
          /\ count_csv = repos
    /\ version = <<>>
    /\ versioning = <<>>
    /\ date_series = <<>>
    /\ parallel_date_series = <<>>
    /\ n = <<>>
    /\ deltatimes = <<>>
    /\ calls = <<>>
    /\ pc = "start"
    /\ TokIdle

NextBatch == Construct \/ Score \/ ComputeComponentZscores

SpecBatch == InitBatch /\ [][NextBatch]_vars

----------------------------------------------------------------------------
(* SpecGaps: a scoring run over longer histories of one project, long       *)
(* enough to be flagged as parallel and to hold three events of one major   *)

\* most release rows of the project of SpecGaps
MaxGapRows == 6

\* "1", "1.1", "2", "2.1", "2.1.1", "3"
GapNumbers ==
    { <<"1">>, <<"1", ".", "1">>, <<"2">>, <<"2", ".", "1">>,
      <<"2", ".", "1", ".", "1">>, <<"3">> }

\* the publication day of the i-th row of the release file: one release a
\* day, or (for the histories shorter than MaxGapRows) the third release on
\* the day of the second and the fifth without a date
Calendars(k) == IF k < MaxGapRows THEN {"daily", "uneven"} ELSE {"daily"}

PublishedAt(c, i) ==
    IF c = "daily" THEN i
    ELSE IF i = 5 THEN NaT
    ELSE IF i >= 3 THEN i - 1
    ELSE i

InitGaps ==
    /\ \E k \in 1..MaxGapRows :
         \E c \in Calendars(k), f \in [1..k -> GapNumbers] :
            version_csv =
                [p \in Projects |->
                    [i \in 1..k |-> ReleaseRow(f[i], PublishedAt(c, i), BatchUpdatedAt)]]
    /\ PipeStart
    /\ TokIdle

NextGaps == Construct \/ Score

SpecGaps == InitGaps /\ [][NextGaps]_vars

----------------------------------------------------------------------------
(* SpecTok: the tokenizer and the classifier on drawn version strings *)

TokAlphabet == {"0", "1", Dot}

RECURSIVE StrsUpTo(_)
StrsUpTo(len) ==
    IF len = 0 THEN {<<>>}
    ELSE LET shorter == StrsUpTo(len - 1)
         IN  shorter \cup {Append(s, c) : s \in {t \in shorter : Len(t) = len - 1},
                                           c \in TokAlphabet}

TokStrings == StrsUpTo(MaxLen)

NotRun == <<"not run">>

PipeIdle ==
    /\ version_csv = <<>>
    /\ count_csv = <<>>
    /\ version = <<>>
    /\ versioning = <<>>
    /\ date_series = <<>>
    /\ parallel_date_series = <<>>
    /\ n = <<>>
    /\ deltatimes = <<>>
    /\ calls = <<>>
    /\ pc = "idle"

InitTok ==
    /\ num \in TokStrings
    /\ num2 \in TokStrings
    /\ num_parts = NotRun
    /\ version_type = "none"
    /\ PipeIdle

\* a call _split_version_num(num)
SplitVersionNum ==
    /\ num_parts = NotRun
    /\ num_parts' = split_version_num(num)
    /\ UNCHANGED <<num, num2, version_type>>
    /\ UNCHANGED pipeVars

\* a call _find_version_type(_split_version_num(num), _split_version_num(num2))
FindVersionType ==
    /\ version_type = "none"
    /\ version_type' = find_version_type(split_version_num(num), split_version_num(num2))
    /\ UNCHANGED <<num, num2, num_parts>>
    /\ UNCHANGED pipeVars

NextTok == SplitVersionNum \/ FindVersionType

SpecTok == InitTok /\ [][NextTok]_vars

----------------------------------------------------------------------------
(* C1, C2 *)

NDots(s) == Cardinality({i \in 1..Len(s) : s[i] = Dot})
NoDot(s) == NDots(s) = 0

\* C1: _split_version_num(v) returns exactly three strings for every v, the
\* empty string included: with two or more dots in v the three slots joined by
\* dots give v back and the first two slots hold no dot; with one dot the first
\* two slots joined give v and the third is "0"; with no dot the first slot is v
\* and the other two are "0".
C1_SplitThreeSlots ==
    num_parts # NotRun =>
        /\ Len(num_parts) = 3
        /\ NoDot(num_parts[1]) /\ NoDot(num_parts[2])
        /\ CASE NDots(num) >= 2 ->
                    num_parts[1] \o <<Dot>> \o num_parts[2] \o <<Dot>> \o num_parts[3] = num
             [] NDots(num) = 1 ->
                    /\ num_parts[1] \o <<Dot>> \o num_parts[2] = num
                    /\ num_parts[3] = <<"0">>
             [] NDots(num) = 0 ->
                    /\ num_parts[1] = num
                    /\ num_parts[2] = <<"0">>
                    /\ num_parts[3] = <<"0">>

\* the tokenizer has run on a string of more than three parts
C1_Witness ==
    /\ num_parts # NotRun
    /\ NDots(num) >= 3

\* C2: the classifier answers MAJOR when the major slots differ, else MINOR
\* when the minor slots differ, else PATCH when the third slots differ, else
\* FIRST; two versions with equal triples are FIRST.
C2_ClassifyOrder ==
    version_type # "none" =>
        LET p == split_version_num(num)
            c == split_version_num(num2)
        IN  /\ (p[1] # c[1]) => version_type = "MAJOR"
            /\ (p[1] = c[1] /\ p[2] # c[2]) => version_type = "MINOR"
            /\ (p[1] = c[1] /\ p[2] = c[2] /\ p[3] # c[3]) => version_type = "PATCH"
            /\ (p = c) => version_type = "FIRST"
            /\ (num = num2) => version_type = "FIRST"

\* two different strings with the same triple were classified
C2_Witness ==
    /\ version_type = "FIRST"
    /\ num # num2

----------------------------------------------------------------------------
(* C3 .. C5: the timeline *)

Constructed == pc \in {"constructed", "scored", "normalized"}

\* the version strings of a list of rows, and of a timeline
NumbersOf(rows) == <<>> \o [i \in 1..Len(rows) |-> rows[i].number]
VersionsOf(ds) == <<>> \o [i \in 1..Len(ds) |-> ds[i][3]]

\* the rows whose number holds none of the markers, in order
Unmarked(rows) == SelectSeq(rows, LAMBDA r : ~str_contains_marker(r.number))

\* C3: pre-release filtering is all or nothing: when some row of the project
\* holds no marker the timeline is built from exactly the rows without markers,
\* and when every row holds one it is built from all rows, so a project with a
\* row never has an empty timeline.
C3_FilterAllOrNothing ==
    Constructed =>
        \A id \in DOMAIN date_series :
            LET rows == sort_values(version[id])
            IN  /\ Len(date_series[id]) >= 1
                /\ (Unmarked(rows) # <<>>) =>
                        VersionsOf(date_series[id]) = NumbersOf(Unmarked(rows))
                /\ (Unmarked(rows) = <<>>) =>
                        VersionsOf(date_series[id]) = NumbersOf(rows)

\* a project of several rows that all hold a marker
C3_Witness ==
    /\ Constructed
    /\ \E id \in DOMAIN date_series :
          /\ Len(version[id]) >= 2
          /\ Unmarked(version[id]) = <<>>
          /\ Len(date_series[id]) = Len(version[id])

\* C4: every timeline is sorted ascending by timestamp: of two consecutive
\* events with defined timestamps the earlier one is not later than the next.
C4_TimelineSorted ==
    Constructed =>
        \A id \in DOMAIN date_series :
            \A i \in 1..(Len(date_series[id]) - 1) :
                (date_series[id][i][1] # NaT /\ date_series[id][i + 1][1] # NaT)
                    => date_series[id][i][1] <= date_series[id][i + 1][1]

\* C5: an event is FIRST exactly when it is the first event of its timeline
\* or its triple equals the triple of the event before it; the first event is
\* always FIRST.
C5_FirstIffEqualTriple ==
    Constructed =>
        \A id \in DOMAIN date_series :
            LET ds == date_series[id]
            IN  \A i \in 1..Len(ds) :
                    (ds[i][2] = "FIRST") <=>
                        (i = 1 \/ split_version_num(ds[i][3]) = split_version_num(ds[i - 1][3]))

\* a later event is FIRST although its version string differs from the one
\* before it, and another later event is not FIRST
C5_Witness ==
    /\ Constructed
    /\ \E id \in DOMAIN date_series :
          LET ds == date_series[id]
          IN  /\ \E i \in 2..Len(ds) : ds[i][2] = "FIRST" /\ ds[i][3] # ds[i - 1][3]
              /\ \E i \in 2..Len(ds) : ds[i][2] # "FIRST"

----------------------------------------------------------------------------
(* C6 .. C8: parallel release lines *)

MajorsOf(ds) == <<>> \o [i \in 1..Len(ds) |-> MajorOf(ds[i])]

\* the positions i with major[i] > major[i+1]
Decreases(ds) ==
    {i \in 1..(Len(ds) - 1) : StrLess(MajorOf(ds[i + 1]), MajorOf(ds[i]))}

MajorSet(ds) == {MajorOf(ds[i]) : i \in 1..Len(ds)}

\* C6: check_parallel_versions flags a timeline exactly when at least 3
\* positions hold a decrease of the major token; flagged, it returns the set of
\* all major tokens of the timeline, unflagged the empty list; the majors
\* 2,1,3,2,3,1 are flagged with {1,2,3}.
C6_FlagIffThreeDecreases ==
    Constructed =>
        \A id \in DOMAIN date_series :
            LET ds  == date_series[id]
                res == check_parallel_versions(ds)
            IN  /\ res[1] <=> (Cardinality(Decreases(ds)) >= 3)
                /\ res[1] => res[2] = MajorSet(ds)
                /\ ~res[1] => res[2] = {}
                /\ (MajorsOf(ds) = << <<"2">>, <<"1">>, <<"3">>, <<"2">>, <<"3">>, <<"1">> >>)
                        => res = <<TRUE, { <<"1">>, <<"2">>, <<"3">> }>>

\* a flagged timeline with a major token that first appears after the third
\* decrease
C6_Witness ==
    /\ Constructed
    /\ \E id \in DOMAIN date_series :
          LET ds == date_series[id]
          IN  /\ parallel_date_series[id] # <<>>
              /\ \E j \in 1..Len(ds) :
                    /\ Cardinality({i \in Decreases(ds) : i < j - 1}) >= 3
                    /\ \A i \in 1..(j - 1) : MajorOf(ds[i]) # MajorOf(ds[j])

\* C7 as stated, the major versions read as numbers: a timeline whose major
\* versions increase strictly is never flagged.
C7_NumericIncreasingNeverFlagged ==
    Constructed =>
        \A id \in DOMAIN date_series :
            LET ds == date_series[id]
            IN  (\A i \in 1..(Len(ds) - 1) :
                     NumVal(MajorOf(ds[i])) < NumVal(MajorOf(ds[i + 1])))
                    => parallel_date_series[id] = <<>>

\* C7 amended: a timeline whose major tokens increase strictly in string
\* order has no decrease and is not flagged.
C7_LexicalIncreasingNeverFlagged ==
    Constructed =>
        \A id \in DOMAIN date_series :
            LET ds == date_series[id]
            IN  (\A i \in 1..(Len(ds) - 1) : StrLess(MajorOf(ds[i]), MajorOf(ds[i + 1])))
                    => /\ check_parallel_versions(ds) = <<FALSE, {}>>
                       /\ parallel_date_series[id] = <<>>

\* a timeline of four or more events whose major tokens increase strictly
\* in string order
C7_Witness ==
    /\ Constructed
    /\ \E id \in DOMAIN date_series :
          LET ds == date_series[id]
          IN  /\ Len(ds) >= 4
              /\ \A i \in 1..(Len(ds) - 1) : StrLess(MajorOf(ds[i]), MajorOf(ds[i + 1]))
              /\ parallel_date_series[id] = <<>>

\* the positions of the events of ds with major token k
PositionsOf(ds, k) == {i \in 1..Len(ds) : MajorOf(ds[i]) = k}

\* the j-th smallest element of a set of positions
Nth(S, j) == CHOOSE i \in S : Cardinality({m \in S : m <= i}) = j

\* C8: for a flagged timeline track_parallel_versions returns one sub-timeline
\* per major token, holding exactly the events of that token in the order of
\* the timeline, the sub-timelines in ascending string order of their token.
C8_PartitionOrdered ==
    Constructed =>
        \A id \in DOMAIN date_series :
            LET ds  == date_series[id]
                pds == parallel_date_series[id]
            IN  (pds # <<>>) =>
                    /\ {pds[g][1] : g \in 1..Len(pds)} = MajorSet(ds)
                    /\ \A g \in 1..(Len(pds) - 1) : StrLess(pds[g][1], pds[g + 1][1])
                    /\ \A g \in 1..Len(pds) :
                          LET pos == PositionsOf(ds, pds[g][1])
                          IN  /\ Len(pds[g][2]) = Cardinality(pos)
                              /\ \A j \in 1..Len(pds[g][2]) :
                                    pds[g][2][j] = ds[Nth(pos, j)]

\* a flagged timeline whose first major token is not the smallest and one
\* of whose groups holds events that are not adjacent in the timeline
C8_Witness ==
    /\ Constructed
    /\ \E id \in DOMAIN date_series :
          LET ds  == date_series[id]
              pds == parallel_date_series[id]
          IN  /\ pds # <<>>
              /\ pds[1][1] # MajorOf(ds[1])
              /\ \E g \in 1..Len(pds) : Len(pds[g][2]) >= 2

----------------------------------------------------------------------------
(* C9, C10: the final score *)

Scored == pc \in {"scored", "normalized"}

\* the hundredths a sub-score adds to np.nansum
Defined(f) == IF IsNum(f) THEN f.v ELSE 0

\* C9: the score is 100 * (weighted_count + weighted_meantime + weighted_freq) / n
\* rounded to 2 decimals, an undefined sub-score adding nothing, where n is 3
\* less the number of weighted_meantime and weighted_freq that are exactly 0;
\* n is 1, 2 or 3.
C9_ScoreFormula ==
    Scored =>
        \A id \in DOMAIN versioning :
            LET r     == versioning[id]
                zeros == Cardinality({c \in {"weighted_meantime", "weighted_freq"} :
                                         r[c] = Num(0)})
                sum   == Defined(r.weighted_count) + Defined(r.weighted_meantime)
                         + Defined(r.weighted_freq)
            IN  /\ n[id] = 3 - zeros
                /\ n[id] \in 1..3
                /\ (\A c \in {"weighted_count", "weighted_meantime", "weighted_freq"} :
                        r[c].k # "inf")
                     => /\ IsNum(r.versioning_openteams_score)
                        /\ 2 * n[id] * r.versioning_openteams_score.v - n[id] <= 200 * sum
                        /\ 200 * sum <= 2 * n[id] * r.versioning_openteams_score.v + n[id]

\* a scored project with three defined sub-scores, n = 3, and a score that
\* needed rounding
C9_Witness ==
    /\ Scored
    /\ \E id \in DOMAIN versioning :
          /\ n[id] = 3
          /\ IsNum(versioning[id].weighted_freq)
          /\ IsNum(versioning[id].weighted_meantime)
          /\ (versioning[id].weighted_count.v + versioning[id].weighted_meantime.v
              + versioning[id].weighted_freq.v) % 3 # 0

\* C10: for a project with fewer than 2 events weighted_meantime is exactly
\* 0.0, no interval mean is computed (the three mean columns keep their 0.0),
\* and n is decremented for the mean-time component.
C10_SingleRelease ==
    Scored =>
        \A id \in DOMAIN versioning :
            (Len(date_series[id]) < 2) =>
                /\ versioning[id].weighted_meantime = Num(0)
                /\ versioning[id].major_meantime = Num(0)
                /\ versioning[id].minor_meantime = Num(0)
                /\ versioning[id].patch_meantime = Num(0)
                /\ n[id] = 2 - (IF versioning[id].weighted_freq = Num(0) THEN 1 ELSE 0)

\* a scored project with a single event
C10_Witness ==
    /\ Scored
    /\ \E id \in DOMAIN versioning :
          /\ Len(date_series[id]) = 1
          /\ n[id] = 1

----------------------------------------------------------------------------
(* C11: scenario A *)

\* 1.0.0, 1.1.0, 1.1.1, 2.0.0
ScenarioNumbers ==
    << <<"1", ".", "0", ".", "0">>, <<"1", ".", "1", ".", "0">>,
       <<"1", ".", "1", ".", "1">>, <<"2", ".", "0", ".", "0">> >>

\* the rows are the four versions of the scenario, published in this order on
\* four strictly increasing days
IsScenarioA(rows) ==
    /\ NumbersOf(sort_values(rows)) = ScenarioNumbers
    /\ \A i \in 1..Len(rows) : rows[i].published_at # NaT
    /\ \A i \in 1..(Len(rows) - 1) :
          sort_values(rows)[i].published_at < sort_values(rows)[i + 1].published_at

\* C11: for a project whose records are 1.0.0, 1.1.0, 1.1.1, 2.0.0 published
\* at four strictly increasing dates the timeline holds exactly one MAJOR
\* event and at least one MINOR and one PATCH event, no parallel partition is
\* created, and once scored the count columns say the same and the weighted
\* release count (5*major_count + 2*minor_count + patch_count)/8 is > 0.
C11_ScenarioA ==
    Constructed =>
        \A id \in DOMAIN date_series :
            IsScenarioA(version[id]) =>
                /\ CountKind(date_series[id], "MAJOR") = 1
                /\ CountKind(date_series[id], "MINOR") >= 1
                /\ CountKind(date_series[id], "PATCH") >= 1
                /\ parallel_date_series[id] = <<>>
                /\ num_versions_weighted_sum(date_series[id]).sum8 > 0
                /\ Scored =>
                      /\ versioning[id].major_count = 1
                      /\ versioning[id].minor_count >= 1
                      /\ versioning[id].patch_count >= 1
                      /\ 5 * versioning[id].major_count + 2 * versioning[id].minor_count
                         + versioning[id].patch_count > 0
                      /\ IsNum(versioning[id].weighted_count)
                      /\ versioning[id].weighted_count.v > 0

\* a scored project of scenario A whose file lists the releases latest first
C11_Witness ==
    /\ Scored
    /\ \E id \in DOMAIN versioning :
          /\ IsScenarioA(version[id])
          /\ NumbersOf(version[id]) # ScenarioNumbers
          /\ versioning[id].major_count = 1

----------------------------------------------------------------------------
(* C12: projects without release records *)

\* the merged row r is a release row of the release file
IsReleaseRow(r) ==
    \E j \in 1..Len(version_csv[r.project_id]) :
        [project_id |-> r.project_id] @@ version_csv[r.project_id][j] = r

----------------------------------------------------------------------------
(* C13: unknown gaps *)

\* the events after the first of kind whose gap to the event before is
\* defined: both timestamps present and different
DefinedGaps(ds, kind) ==
    {i \in 2..Len(ds) : /\ ds[i][2] = kind
                        /\ ds[i][1] # NaT /\ ds[i - 1][1] # NaT
                        /\ ds[i][1] # ds[i - 1][1]}

\* the gaps in hundredths of a day
GapOf(ds) == [i \in 2..Len(ds) |-> 100 * (ds[i][1] - ds[i - 1][1])]

\* mean is the mean over the defined gaps of kind rounded to 2 decimals, or
\* NaN when there is none
IsMeanOfDefined(mean, ds, kind) ==
    IF DefinedGaps(ds, kind) = {} THEN IsNaN(mean)
    ELSE /\ IsNum(mean)
         /\ 2 * Cardinality(DefinedGaps(ds, kind)) * mean.v
              - 2 * SumOver(GapOf(ds), DefinedGaps(ds, kind))
            \in (-Cardinality(DefinedGaps(ds, kind)))..Cardinality(DefinedGaps(ds, kind))

\* what a bucket mean adds to the weighted mean-time sum, in units of 1/10000
Contribution(w, mean) ==
    IF IsNum(mean) /\ mean.v # 0 THEN RoundDiv(1000000 * w, mean.v) ELSE 0

\* the buckets of a timeline without a mean
NoMeanBuckets(row) ==
    {c \in {"major_meantime", "minor_meantime", "patch_meantime"} : IsNaN(row[c])}

\* C13 as stated: a bucket without a mean is removed from the denominator n,
\* so a project one of whose buckets has no mean has n < 3.
C13_NoMeanBucketLeavesN ==
    Scored =>
        \A id \in DOMAIN versioning :
            (Len(date_series[id]) >= 2 /\ NoMeanBuckets(versioning[id]) # {})
                => n[id] < 3

\* C13 amended: no gap of a bucket is 0; each mean column is the mean of the
\* defined gaps of its kind, a zero or missing-timestamp gap left out, and
\* NaN ("no mean") when the bucket has no defined gap; a bucket without a mean
\* adds 0 to the weighted mean-time sum; n is not changed per bucket: it loses
\* 1 exactly when weighted_meantime as a whole is 0.0, as it is when no
\* bucket has a mean.
C13_UnknownGapsIgnored ==
    Scored =>
        \A id \in DOMAIN versioning :
            (Len(date_series[id]) >= 2 /\ parallel_date_series[id] = <<>>) =>
                LET ds  == date_series[id]
                    row == versioning[id]
                    d   == build_deltatime_series(ds, <<>>)
                IN  /\ \A b \in {d.majors, d.minors, d.patches} :
                          \A i \in 1..Len(b) : b[i] # Num(0)
                    /\ IsMeanOfDefined(row.major_meantime, ds, "MAJOR")
                    /\ IsMeanOfDefined(row.minor_meantime, ds, "MINOR")
                    /\ IsMeanOfDefined(row.patch_meantime, ds, "PATCH")
                    /\ row.weighted_meantime =
                          Saturate(Contribution(6, row.major_meantime)
                                   + Contribution(4, row.minor_meantime)
                                   + Contribution(2, row.patch_meantime))
                    /\ (NoMeanBuckets(row) =
                            {"major_meantime", "minor_meantime", "patch_meantime"})
                          => row.weighted_meantime = Num(0)
                    /\ n[id] = 3 - (IF row.weighted_meantime = Num(0) THEN 1 ELSE 0)
                                 - (IF row.weighted_freq = Num(0) THEN 1 ELSE 0)

\* a scored project with a bucket whose only gap is 0 or has a missing
\* timestamp, another bucket with a mean, and n = 3
C13_Witness ==
    /\ Scored
    /\ \E id \in DOMAIN versioning :
          /\ Len(date_series[id]) >= 2
          /\ CountKind(Tail(date_series[id]), "MINOR") >= 1
          /\ IsNaN(versioning[id].minor_meantime)
          /\ IsNum(versioning[id].major_meantime)
          /\ versioning[id].major_meantime.v > 0
          /\ n[id] = 3

----------------------------------------------------------------------------
(* C14 .. C16: normalization *)

Normalized == pc = "normalized"

\* the col + "_zscore" column of the i-th column of get_json_cols
ZColumn(tbl, i) ==
    [id \in DOMAIN tbl |->
        CASE i = 1 -> tbl[id].major_meantime_zscore
          [] i = 2 -> tbl[id].minor_meantime_zscore
          [] i = 3 -> tbl[id].patch_meantime_zscore
          [] i = 4 -> tbl[id].major_count_zscore
          [] i = 5 -> tbl[id].minor_count_zscore
          [] i = 6 -> tbl[id].patch_count_zscore
          [] i = 7 -> tbl[id].major_freq_zscore
          [] i = 8 -> tbl[id].minor_freq_zscore
          [] i = 9 -> tbl[id].patch_freq_zscore
          [] i = 10 -> tbl[id].versioning_openteams_score_zscore]

\* the i-th column of get_json_cols
MetricColumn(tbl, i) == column_of(tbl, get_json_cols[i])

\* the entries of a column that are defined
DefinedIn(col) == {id \in DOMAIN col : IsNum(col[id])}

HasInfinity(col) == \E id \in DOMAIN col : col[id].k = "inf"

\* cnt * (x - mean) and cnt^2 * variance over the defined entries
DeviationIn(col, id) ==
    Cardinality(DefinedIn(col)) * col[id].v
    - SumOver([o \in DefinedIn(col) |-> col[o].v], DefinedIn(col))
SpreadIn(col) ==
    Cardinality(DefinedIn(col))
        * SumOver([o \in DefinedIn(col) |-> col[o].v * col[o].v], DefinedIn(col))
    - SumOver([o \in DefinedIn(col) |-> col[o].v], DefinedIn(col))
        * SumOver([o \in DefinedIn(col) |-> col[o].v], DefinedIn(col))

\* q hundredths is a / sqrt(d) rounded to 2 decimals, for a >= 0 and d > 0
IsRounded(q, a, d) ==
    /\ q >= 0
    /\ q = 0 \/ FracLeq((2 * q - 1) * (2 * q - 1), 40000, a * a, d)
    /\ FracLeq(a * a, d, (2 * q + 1) * (2 * q + 1), 40000)

\* z is the z-score column of col taken over the defined entries of col
IsZscoreOfDefined(z, col) ==
    \A id \in DOMAIN col :
        IF id \notin DefinedIn(col) \/ SpreadIn(col) = 0 THEN IsNaN(z[id])
        ELSE /\ IsNum(z[id])
             /\ IF DeviationIn(col, id) >= 0
                THEN IsRounded(z[id].v, DeviationIn(col, id), SpreadIn(col))
                ELSE IsRounded(-z[id].v, -DeviationIn(col, id), SpreadIn(col))

\* C14: for each metric column the z-score is (x - mean) / std rounded to 2
\* decimals with mean and standard deviation taken over the projects whose
\* value is defined; an undefined entry gets an undefined z-score, and with a
\* single defined value or all defined values equal every z-score of the
\* column is undefined.  (Columns holding an infinity are left aside.)
C14_ZscoreOverDefined ==
    Normalized =>
        \A i \in 1..Len(get_json_cols) :
            ~HasInfinity(MetricColumn(versioning, i)) =>
                /\ IsZscoreOfDefined(ZColumn(versioning, i), MetricColumn(versioning, i))
                /\ (Cardinality({MetricColumn(versioning, i)[id] :
                                    id \in DefinedIn(MetricColumn(versioning, i))}) <= 1)
                      => \A id \in DOMAIN versioning : IsNaN(ZColumn(versioning, i)[id])

\* a normalized table with a column of an undefined entry and two different
\* defined ones, and a column whose entries are all equal
C14_Witness ==
    /\ Normalized
    /\ \E i \in 1..Len(get_json_cols) :
          /\ \E id \in DOMAIN versioning : IsNaN(MetricColumn(versioning, i)[id])
          /\ \E id \in DOMAIN versioning :
                IsNum(ZColumn(versioning, i)[id]) /\ ZColumn(versioning, i)[id].v > 0
    /\ \E i \in 1..Len(get_json_cols) :
          /\ Cardinality(DOMAIN versioning) >= 2
          /\ DefinedIn(MetricColumn(versioning, i)) = DOMAIN versioning
          /\ \A id \in DOMAIN versioning : IsNaN(ZColumn(versioning, i)[id])

\* C15: a second run of compute_component_zscores over the unchanged metrics
\* table writes the z-scores the first run wrote, for every project and
\* column: the table after the second run is the table before it.
C15_SecondRunIdentical ==
    [][(pc = "normalized" /\ calls' = calls \o <<"compute_component_zscores">>)
          => versioning' = versioning]_vars

\* the normalizer has run twice over a table with a z-score that is a
\* number other than 0
C15_Witness ==
    /\ Normalized
    /\ CallsOf(calls, "compute_component_zscores") = 2
    /\ \E id \in DOMAIN versioning :
          /\ IsNum(versioning[id].versioning_openteams_score_zscore)
          /\ versioning[id].versioning_openteams_score_zscore.v # 0

\* the column with project p removed from the cohort
Without(col, p) == [id \in DOMAIN col \ {p} |-> col[id]]

\* C16 as stated: removing a project from the cohort and normalizing again
\* changes the z-score of every remaining project (that has one) in every
\* column.
C16_RemovalChangesEvery ==
    Normalized =>
        \A i \in 1..Len(get_json_cols) :
            \A p \in DOMAIN versioning :
                \A q \in DOMAIN versioning \ {p} :
                    IsNum(ZColumn(versioning, i)[q]) =>
                        zscore(Without(MetricColumn(versioning, i), p))[q]
                            # ZColumn(versioning, i)[q]

\* C16 amended: the z-scores of a column depend on the cohort's defined
\* values only: removing a project whose value in the column is undefined
\* leaves every remaining z-score as it was, and in a cohort of two defined,
\* different values each has the z-score 1.0 or -1.0 and removing one makes
\* the other's undefined.
C16_CrossSectional ==
    Normalized =>
        \A i \in 1..Len(get_json_cols) :
            LET col == MetricColumn(versioning, i)
                z   == ZColumn(versioning, i)
            IN  ~HasInfinity(col) =>
                    \A p \in DOMAIN versioning :
                        \A q \in DOMAIN versioning \ {p} :
                            /\ IsNaN(col[p]) =>
                                  zscore(Without(col, p))[q] = z[q]
                            /\ (DefinedIn(col) = {p, q} /\ col[p] # col[q]) =>
                                  /\ z[q] \in {Num(100), Num(-100)}
                                  /\ z[p] = Num(-z[q].v)
                                  /\ IsNaN(zscore(Without(col, p))[q])

\* a normalized table of three projects with a column in which one value is
\* undefined and the two others differ
C16_Witness ==
    /\ Normalized
    /\ Cardinality(DOMAIN versioning) = 3
    /\ \E i \in 1..Len(get_json_cols) :
          \E p \in DOMAIN versioning :
              /\ IsNaN(MetricColumn(versioning, i)[p])
              /\ Cardinality(DefinedIn(MetricColumn(versioning, i))) = 2
              /\ \E q \in DOMAIN versioning :
                    ZColumn(versioning, i)[q] = Num(100)

----------------------------------------------------------------------------
(* C17: scoring, then normalization *)

ScoringMethods ==
    {"score", "number_version_score", "version_meantime_score", "version_frequency"}

MetricFields ==
    {"major_count", "minor_count", "patch_count", "weighted_count",
     "major_meantime", "minor_meantime", "patch_meantime", "weighted_meantime",
     "major_freq", "minor_freq", "patch_freq", "weighted_freq",
     "versioning_openteams_score"}

\* the per-project metrics of the table
MetricsOf(tbl) == [id \in DOMAIN tbl |-> [c \in MetricFields |-> tbl[id][c]]]

\* C17: when compute_component_zscores has been called every project of the
\* table has all its metrics and its final score, no scoring method is called
\* after a call of compute_component_zscores, and from the first
\* normalization on no per-project metric and no n changes.
C17_ScoreThenNormalize ==
    /\ [](CallsOf(calls, "compute_component_zscores") >= 1 =>
            /\ Normalized
            /\ \A id \in DOMAIN versioning : MetricFields \subseteq DOMAIN versioning[id]
            /\ \A i \in 1..Len(calls) : \A j \in (i + 1)..Len(calls) :
                  calls[i] = "compute_component_zscores" => calls[j] \notin ScoringMethods)
    /\ [][(Normalized \/ pc' = "normalized") =>
            /\ Scored /\ pc' = "normalized"
            /\ \A id \in DOMAIN versioning : MetricFields \subseteq DOMAIN versioning[id]
            /\ MetricsOf(versioning') = MetricsOf(versioning)
            /\ n' = n]_vars

\* a normalized table of three projects, each with a score that is a number
C17_Witness ==
    /\ Normalized
    /\ Cardinality(DOMAIN versioning) = 3
    /\ \A id \in DOMAIN versioning : IsNum(versioning[id].versioning_openteams_score)

----------------------------------------------------------------------------
(* C18: a project's values depend on its own records *)

\* the projects of repository id, their release rows and their summary rows
OwnProjects(id) == {p \in DOMAIN count_csv : count_csv[p] = id}
OwnReleases(id) == [p \in OwnProjects(id) |-> version_csv[p]]
OwnSummary(id) == [p \in OwnProjects(id) |-> count_csv[p]]

\* the construction and the scoring run over the records of repository id
\* alone
AloneMerged(id) == merge(OwnReleases(id), OwnSummary(id))
AloneSeries(id) ==
    [r \in DOMAIN AloneMerged(id) |->
        build_date_series(repo_versions_of(AloneMerged(id)[r]))]
AloneParallel(id) ==
    [r \in DOMAIN AloneMerged(id) |-> build_parallel_series(AloneSeries(id)[r])]
AloneTable(id) ==
    [r \in DOMAIN AloneMerged(id) |->
        [project_id |-> MaxId(OwnProjects(id) \cap
                              {p \in DOMAIN version_csv : version_csv[p] # <<>>}),
         updated_at |-> MaxDate([i \in 1..Len(AloneMerged(id)[r]) |->
                                    AloneMerged(id)[r][i].updated_at])]]
AloneScored(id) ==
    LET t1 == number_version_score(AloneTable(id), AloneSeries(id))
        t2 == version_meantime_score(t1, AloneSeries(id), AloneParallel(id))
        t3 == version_frequency(t2, AloneSeries(id))
        t4 == number_version_score(t3, AloneSeries(id))
        t5 == version_meantime_score(t4, AloneSeries(id), AloneParallel(id))
        t6 == version_frequency(t5, AloneSeries(id))
    IN  score_table(t3, t4, t5, t6)

\* the events of a parallel partition
PartitionEvents(pds) ==
    UNION {{pds[g][2][j] : j \in 1..Len(pds[g][2])} : g \in 1..Len(pds)}

\* C18: the merged rows, timeline, parallel partition and, once scored, the
\* counts, means, frequencies, sub-scores, n and score of a repository of the
\* output are the ones a run over its own release and summary rows alone
\* gives, whatever the other projects of the batch are, and its parallel
\* partition holds only events of its own timeline.
C18_OwnRecordsOnly ==
    Constructed =>
        \A id \in DOMAIN versioning :
            /\ DOMAIN AloneMerged(id) = {id}
            /\ version[id] = AloneMerged(id)[id]
            /\ date_series[id] = AloneSeries(id)[id]
            /\ parallel_date_series[id] = AloneParallel(id)[id]
            /\ PartitionEvents(parallel_date_series[id])
                  \subseteq {date_series[id][i] : i \in 1..Len(date_series[id])}
            /\ versioning[id].project_id = AloneTable(id)[id].project_id
            /\ versioning[id].updated_at = AloneTable(id)[id].updated_at
            /\ pc = "scored" =>
                  /\ MetricsOf(versioning)[id] = MetricsOf(AloneScored(id).versioning)[id]
                  /\ n[id] = AloneScored(id).n_series[id]

\* a scored batch of two repositories with different timelines, one of them
\* fed by two projects
C18_Witness ==
    /\ pc = "scored"
    /\ Cardinality(DOMAIN versioning) = 2
    /\ Cardinality({date_series[id] : id \in DOMAIN versioning}) = 2
    /\ \E id \in DOMAIN versioning : Cardinality(OwnProjects(id)) = 2

----------------------------------------------------------------------------
(* C19, C20 *)

\* C19: within one call of score() each of the stages number_version_score,
\* version_meantime_score and version_frequency runs once, so each metric
\* field is written once per project.
C19_StagesRunOnce ==
    Scored =>
        /\ CallsOf(calls, "score") = 1
        /\ \A m \in {"number_version_score", "version_meantime_score",
                     "version_frequency"} : CallsOf(calls, m) = 1

\* C20: release rows of a project without a summary row are not dropped
\* silently: a run over such a batch does not come to a constructed table
\* that lacks the project.
C20_MissingSummarySurfaced ==
    Constructed =>
        \A p \in DOMAIN version_csv :
            (version_csv[p] # <<>> /\ p \notin DOMAIN count_csv) =>
                \E id \in DOMAIN version :
                    \E i \in 1..Len(version[id]) : version[id][i].project_id = p

----------------------------------------------------------------------------
(* C21: the interval pass over a single timeline *)

\* the gap from timestamp b to timestamp a in hundredths of a day, unknown
\* when a timestamp is missing or the two are equal
GapBetween(a, b) ==
    IF a = NaT \/ b = NaT \/ a = b THEN NaN ELSE Num(100 * (a - b))

\* the events after the first that are of kind
EventsAfterFirst(ds, kind) == {i \in 2..Len(ds) : ds[i][2] = kind}

\* the buckets returned for a project, each with the kind it belongs to
BucketsOf(d) == {<<"MAJOR", d.majors>>, <<"MINOR", d.minors>>, <<"PATCH", d.patches>>}

\* C21: for a non-parallel project the bucket of a kind holds, in timeline
\* order, one gap per event after the first that is of this kind, the gap being
\* measured from the event immediately before it whatever the kind of that
\* event; an event of kind FIRST adds no gap to any bucket and is the
\* reference of the event after it.
C21_GapFromPredecessor ==
    Scored =>
        \A id \in DOMAIN deltatimes :
            (Len(date_series[id]) >= 2 /\ parallel_date_series[id] = <<>>) =>
                LET ds == date_series[id]
                IN  /\ deltatimes[id].built
                    /\ \A kb \in BucketsOf(deltatimes[id]) :
                          LET S == EventsAfterFirst(ds, kb[1])
                          IN  /\ Len(kb[2]) = Cardinality(S)
                              /\ \A j \in 1..Len(kb[2]) :
                                    kb[2][j] = GapBetween(ds[Nth(S, j)][1],
                                                          ds[Nth(S, j) - 1][1])
                    /\ Len(deltatimes[id].majors) + Len(deltatimes[id].minors)
                          + Len(deltatimes[id].patches)
                       = Cardinality({i \in 2..Len(ds) : ds[i][2] # "FIRST"})

\* a scored non-parallel project whose second event is of kind FIRST and
\* published after the first, and whose third event closes a defined gap
\* measured from that second event
C21_Witness ==
    /\ pc = "scored"
    /\ \E id \in DOMAIN deltatimes :
          LET ds == date_series[id]
          IN  /\ Len(ds) = 3
              /\ parallel_date_series[id] = <<>>
              /\ ds[2][2] = "FIRST" /\ ds[1][1] # NaT /\ ds[2][1] # NaT
              /\ ds[2][1] > ds[1][1]
              /\ ds[3][2] = "MINOR" /\ ds[3][1] # NaT
              /\ deltatimes[id].minors = <<Num(100 * (ds[3][1] - ds[2][1]))>>
              /\ ds[3][1] > ds[2][1]

----------------------------------------------------------------------------
(* C22: minor and patch gaps within a major-token group *)

\* the minor and the patch slot of an event
MinorSlot(elt) == split_version_num(elt[3])[2]
PatchSlot(elt) == split_version_num(elt[3])[3]

\* the events of a group whose minor slot is greater than the minor slot of
\* the event before them in the group
MinorSteps(g) == {i \in 2..Len(g) : StrGreater(MinorSlot(g[i]), MinorSlot(g[i - 1]))}

\* the events of a group that are no minor step and whose patch slot is
\* greater than the patch slot of the event before them in the group
PatchSteps(g) ==
    {i \in 2..Len(g) : /\ i \notin MinorSteps(g)
                        /\ StrGreater(PatchSlot(g[i]), PatchSlot(g[i - 1]))}

\* the number of pairs (group, event) of a partition with the event in Steps
StepCount(pds, Steps(_)) ==
    Cardinality({x \in (1..Len(pds)) \X (1..MaxGapRows) : x[2] \in Steps(pds[x[1]][2])})

\* C22 as stated: in a parallel project an event closes a minor gap exactly
\* when its minor slot is greater than that of the previous event of its
\* group, and otherwise a patch gap exactly when its patch slot is greater
\* than that of the previous event of its group.
C22_ComparedWithPrevious ==
    Scored =>
        \A id \in DOMAIN deltatimes :
            (Len(date_series[id]) >= 2 /\ parallel_date_series[id] # <<>>) =>
                /\ Len(deltatimes[id].minors) =
                      StepCount(parallel_date_series[id], MinorSteps)
                /\ Len(deltatimes[id].patches) =
                      StepCount(parallel_date_series[id], PatchSteps)

----------------------------------------------------------------------------
(* C23: major gaps of a parallel project *)

\* the timestamp of the first event of the j-th group of a partition
FirstDateOf(pds, j) == pds[j][2][1][1]

\* C23: for a parallel project with k major-token groups the major bucket
\* holds exactly k - 1 gaps, the j-th being the first timestamp of group j + 1
\* minus the first timestamp of group j, the groups taken in ascending string
\* order of their major token.
C23_MajorGapsBetweenGroups ==
    Scored =>
        \A id \in DOMAIN deltatimes :
            (Len(date_series[id]) >= 2 /\ parallel_date_series[id] # <<>>) =>
                LET pds == parallel_date_series[id]
                    k   == Cardinality(MajorSet(date_series[id]))
                    b   == deltatimes[id].majors
                IN  /\ Len(pds) = k
                    /\ \A j \in 1..(k - 1) : StrLess(pds[j][1], pds[j + 1][1])
                    /\ Len(b) = k - 1
                    /\ \A j \in 1..(k - 1) :
                          b[j] = GapBetween(FirstDateOf(pds, j + 1), FirstDateOf(pds, j))

\* a scored parallel project with three groups and two defined major gaps
C23_Witness ==
    /\ pc = "scored"
    /\ \E id \in DOMAIN deltatimes :
          /\ Len(parallel_date_series[id]) = 3
          /\ Len(deltatimes[id].majors) = 2
          /\ IsNum(deltatimes[id].majors[1]) /\ IsNum(deltatimes[id].majors[2])

----------------------------------------------------------------------------
(* C24: first events *)

\* the events the gaps of all three buckets of a project end at
AllEnds(d) ==
    {d.ends.majors[j] : j \in 1..Len(d.ends.majors)}
        \cup {d.ends.minors[j] : j \in 1..Len(d.ends.minors)}
        \cup {d.ends.patches[j] : j \in 1..Len(d.ends.patches)}

\* every gap of a bucket has its end event, and the gap is unknown when that
\* event has no timestamp
EndsMatch(d, ds, pds) ==
    \A b \in {"majors", "minors", "patches"} :
        /\ Len(d.ends[b]) = Len(d[b])
        /\ \A j \in 1..Len(d[b]) :
              LET e == d.ends[b][j]
                  date == IF e[1] = 0 THEN ds[e[2]][1] ELSE pds[e[1]][2][e[2]][1]
              IN  date = NaT => IsNaN(d[b][j])

\* C24 as stated: no gap of any bucket ends at the first event of the
\* timeline or of a sub-timeline of the partition.
C24_NoGapEndsAtFirst ==
    Scored =>
        \A id \in DOMAIN deltatimes :
            \A e \in AllEnds(deltatimes[id]) : e[2] # 1

\* C24 amended: no minor or patch gap ends at the first event of a timeline
\* or of a sub-timeline, and no gap of a non-parallel project ends at the
\* first event of its timeline; the major gaps of a parallel project end at
\* the first events of the sub-timelines, one at each but the first
\* sub-timeline in token order.
C24_FirstEndsOnlyMajorGaps ==
    Scored =>
        \A id \in DOMAIN deltatimes :
            LET d   == deltatimes[id]
                pds == parallel_date_series[id]
            IN  /\ EndsMatch(d, date_series[id], pds)
                /\ \A j \in 1..Len(d.ends.minors) : d.ends.minors[j][2] # 1
                /\ \A j \in 1..Len(d.ends.patches) : d.ends.patches[j][2] # 1
                /\ pds = <<>> => \A e \in AllEnds(d) : e[1] = 0 /\ e[2] # 1
                /\ (pds # <<>> /\ d.built) =>
                      d.ends.majors = [j \in 1..(Len(pds) - 1) |-> <<j + 1, 1>>]

\* a scored parallel project with three sub-timelines, two major gaps and a
\* minor gap
C24_Witness ==
    /\ pc = "scored"
    /\ \E id \in DOMAIN deltatimes :
          /\ Len(parallel_date_series[id]) = 3
          /\ Len(deltatimes[id].ends.majors) = 2
          /\ Len(deltatimes[id].ends.minors) >= 1

----------------------------------------------------------------------------
(* C25: the partition and the path of the interval pass *)

\* check_parallel_versions flags the timeline: three decreases of the major
\* token between neighbours
Flagged(ds) == Cardinality(Decreases(ds)) >= ParallelThreshold

\* C25: the partition of a project is non-empty exactly when its timeline is
\* flagged; the interval pass of an unflagged project walks the single
\* timeline (every gap ends at an event of the timeline, one gap per event
\* after the first that is not of kind FIRST), and that of a flagged project
\* walks the partition (every gap ends at an event of a sub-timeline, one
\* major gap per sub-timeline but the first).
C25_PartitionIffFlagged ==
    /\ Constructed =>
          \A id \in DOMAIN date_series :
              (parallel_date_series[id] # <<>>) <=> Flagged(date_series[id])
    /\ Scored =>
          \A id \in DOMAIN deltatimes :
              Len(date_series[id]) >= 2 =>
                  LET d  == deltatimes[id]
                      ds == date_series[id]
                  IN  /\ d.built
                      /\ ~Flagged(ds) =>
                            /\ \A e \in AllEnds(d) : e[1] = 0
                            /\ Len(d.majors) + Len(d.minors) + Len(d.patches)
                                  = Cardinality({i \in 2..Len(ds) : ds[i][2] # "FIRST"})
                      /\ Flagged(ds) =>
                            /\ \A e \in AllEnds(d) : e[1] >= 1
                            /\ Len(d.majors) = Cardinality(MajorSet(ds)) - 1

\* a scored flagged project: its partition is non-empty and its major bucket
\* is shorter than the number of its MAJOR events
C25_Witness ==
    /\ pc = "scored"
    /\ \E id \in DOMAIN deltatimes :
          /\ Flagged(date_series[id])
          /\ parallel_date_series[id] # <<>>
          /\ Len(deltatimes[id].majors) < CountKind(date_series[id], "MAJOR")

----------------------------------------------------------------------------
(* C26, C28: sign of the gaps and range of the mean-time sub-score *)

\* every event of the timeline has a timestamp and none is earlier than the
\* event before it
Chronological(ds) ==
    /\ \A i \in 1..Len(ds) : ds[i][1] # NaT
    /\ \A i \in 2..Len(ds) : ds[i - 1][1] <= ds[i][1]

\* C26 as stated, for the projects whose timeline is in chronological order:
\* the contributions of the bucket means of a project sum to a non-negative
\* number and its weighted mean-time sub-score is a number in [0, 1).
C26_MeantimeInUnitInterval ==
    Scored =>
        \A id \in DOMAIN versioning :
            LET row == versioning[id]
            IN  Chronological(date_series[id]) =>
                /\ Contribution(6, row.major_meantime)
                      + Contribution(4, row.minor_meantime)
                      + Contribution(2, row.patch_meantime) >= 0
                /\ IsNum(row.weighted_meantime)
                /\ row.weighted_meantime.v >= 0
                /\ row.weighted_meantime.v < 100

\* C28 as stated, for the projects whose timeline is in chronological order:
\* every defined gap of a bucket is strictly positive.
C28_GapsPositive ==
    Scored =>
        \A id \in DOMAIN deltatimes :
            Chronological(date_series[id]) =>
                \A kb \in BucketsOf(deltatimes[id]) :
                    \A j \in 1..Len(kb[2]) : IsNum(kb[2][j]) => kb[2][j].v > 0

----------------------------------------------------------------------------
(* C27: events and records *)

\* C27 as stated: the timeline of a project has one event per retained
\* release record, in the sorted order of the records, and the i-th event
\* carries the version string and the published_at of the i-th retained record.
C27_EventCarriesOwnRecord ==
    Constructed =>
        \A id \in DOMAIN date_series :
            LET records == repo_versions_of(version[id])
            IN  /\ Len(date_series[id]) = Len(records)
                /\ \A i \in 1..Len(records) :
                      /\ date_series[id][i][3] = records[i].number
                      /\ date_series[id][i][1] = records[i].published_at

----------------------------------------------------------------------------
(* C29: the partition is a partition *)

\* how often the event e occurs in the series
Occurrences(series, e) == Cardinality({i \in 1..Len(series) : series[i] = e})

\* C29: the partition of a flagged timeline has one key per distinct major
\* token of the timeline and no other key, no sub-timeline is empty, a
\* sub-timeline holds events of its own token only, every event occurs in the
\* sub-timeline of its token as often as in the timeline, and the lengths of
\* the sub-timelines sum to the length of the timeline.
C29_TruePartition ==
    Constructed =>
        \A id \in DOMAIN date_series :
            Flagged(date_series[id]) =>
                LET ds  == date_series[id]
                    pds == parallel_date_series[id]
                IN  /\ {pds[j][1] : j \in 1..Len(pds)} = MajorSet(ds)
                    /\ Len(pds) = Cardinality(MajorSet(ds))
                    /\ \A j \in 1..Len(pds) :
                          /\ Len(pds[j][2]) >= 1
                          /\ \A i \in 1..Len(pds[j][2]) :
                                MajorOf(pds[j][2][i]) = pds[j][1]
                    /\ \A i \in 1..Len(ds), j \in 1..Len(pds) :
                          pds[j][1] = MajorOf(ds[i]) =>
                              Occurrences(pds[j][2], ds[i]) = Occurrences(ds, ds[i])
                    /\ SumOver([j \in 1..Len(pds) |-> Len(pds[j][2])], 1..Len(pds))
                          = Len(ds)

\* a flagged timeline of three major tokens, one of them with several events
C29_Witness ==
    /\ Constructed
    /\ \E id \in DOMAIN date_series :
          /\ Flagged(date_series[id])
          /\ Len(parallel_date_series[id]) = 3
          /\ \E j \in 1..3 : Len(parallel_date_series[id][j][2]) >= 2

----------------------------------------------------------------------------
(* C30: the count pass and the interval pass *)

\* the events of the timeline that are of kind
EventsOfKind(ds, kind) == {i \in 1..Len(ds) : ds[i][2] = kind}

\* C30 as stated: for every project with at least 2 events, parallel or not,
\* the buckets hold as many gaps as the count columns say, and the counts
\* sum to at most len(timeline) - 1.
C30_GapCountsEqualCounts ==
    Scored =>
        \A id \in DOMAIN deltatimes :
            Len(date_series[id]) >= 2 =>
                LET d   == deltatimes[id]
                    row == versioning[id]
                IN  /\ Len(d.majors) = row.major_count
                    /\ Len(d.minors) = row.minor_count
                    /\ Len(d.patches) = row.patch_count
                    /\ row.major_count + row.minor_count + row.patch_count
                          <= Len(date_series[id]) - 1

\* C30 amended: for every project with at least 2 events the count columns
\* number the events of kind MAJOR, MINOR and PATCH of the timeline and sum to
\* at most len(timeline) - 1; for a non-parallel project each bucket holds as
\* many gaps, defined or unknown, as its count column says; for a parallel
\* project the major bucket holds one gap per major-token group but the first,
\* which is at most major_count.
C30_CountsAgreeOnSingleTimeline ==
    Scored =>
        \A id \in DOMAIN deltatimes :
            Len(date_series[id]) >= 2 =>
                LET d   == deltatimes[id]
                    ds  == date_series[id]
                    row == versioning[id]
                IN  /\ row.major_count = Cardinality(EventsOfKind(ds, "MAJOR"))
                    /\ row.minor_count = Cardinality(EventsOfKind(ds, "MINOR"))
                    /\ row.patch_count = Cardinality(EventsOfKind(ds, "PATCH"))
                    /\ row.major_count + row.minor_count + row.patch_count
                          <= Len(ds) - 1
                    /\ parallel_date_series[id] = <<>> =>
                          /\ Len(d.majors) = row.major_count
                          /\ Len(d.minors) = row.minor_count
                          /\ Len(d.patches) = row.patch_count
                    /\ parallel_date_series[id] # <<>> =>
                          /\ Len(d.majors) = Len(parallel_date_series[id]) - 1
                          /\ Len(d.majors) <= row.major_count

\* a scored non-parallel project with events of all three kinds and an
\* unknown gap in its major bucket
C30_Witness ==
    /\ pc = "scored"
    /\ \E id \in DOMAIN deltatimes :
          /\ parallel_date_series[id] = <<>>
          /\ versioning[id].major_count >= 1
          /\ versioning[id].minor_count >= 1
          /\ versioning[id].patch_count >= 1
          /\ \E j \in 1..Len(deltatimes[id].majors) : IsNaN(deltatimes[id].majors[j])

====
